---------------------------- MODULE Spec2Model ----------------------------
(***************************************************************************)
(* Snooker physics engine (physics.js) and the host substep loop (main.js) *)
(* of mgras-maker/bilard.                                                  *)
(*                                                                         *)
(* Numbers.  The program computes in IEEE doubles.  Here every length      *)
(* (m), speed (m/s), angular speed (rad/s), mass (kg), energy (J) and      *)
(* dimensionless coefficient is a fixed-point integer in millionths        *)
(* (value * 10^6), products and quotients are rounded to the nearest       *)
(* millionth, and a 64-bit intermediate product is computed limb by limb   *)
(* so that no step leaves the 32-bit integers.  A timestep dt = 1/n is     *)
(* carried as its denominator n; phaseTime counts ticks of 1/2400 s.       *)
(***************************************************************************)
EXTENDS Integers, Sequences, FiniteSets, TLC

VARIABLES
    balls,      \* ball index -> BallState (this.ballStates of the host)
    pre,        \* the ball states before the last operation
    lastOp,     \* the last operation and its arguments
    steps,      \* number of operations performed so far
    hpc,        \* host: position in the substep loop of animate()
    substep,    \* host: index of the current substep of the frame
    frame,      \* host: number of frames completed
    bodies,     \* host: rigid bodies of the external engine (position, linvel, angvel)
    hlog        \* host: the calls made in the current substep, in order

vars == <<balls, pre, lastOp, steps, hpc, substep, frame, bodies, hlog>>

--------------------------------------------------------------------------
--------------------------------------------------------------------------
(* Fixed-point arithmetic *)

S == 1000 * 1000

MaxInt == (2^30 - 1) * 2 + 1

Abs(a) == IF a < 0 THEN -a ELSE a

Sign(a) == IF a > 0 THEN 1 ELSE IF a < 0 THEN -1 ELSE 0

\* The sign of a product or quotient of a and b.
SameSign(a, b) == IF (a < 0) = (b < 0) THEN 1 ELSE -1

Max(a, b) == IF a >= b THEN a ELSE b

Min(a, b) == IF a <= b THEN a ELSE b

\* Long multiplication a*b and division by c, one bit of b at a time,
\* highest first: invariant a * (bits of b seen so far) = q*c + r with
\* 0 <= r < c.  (q and r are never negative; comparing them first makes
\* each step compute its own q and r before the next step begins.)
RECURSIVE MDIter(_, _, _, _, _, _)
MDIter(a, b, c, p, q, r) ==
    IF q < 0 \/ r < 0 \/ p = 0 THEN <<q, r>>
    ELSE LET d1  == IF r >= c - r THEN 1 ELSE 0
             r1  == IF d1 = 1 THEN r - (c - r) ELSE r + r
             bit == (b \div p) % 2
             am  == a % c
             d2  == IF bit = 1 /\ r1 >= c - am THEN 1 ELSE 0
             r2  == IF bit = 0 THEN r1
                    ELSE IF d2 = 1 THEN r1 - (c - am) ELSE r1 + am
         IN MDIter(a, b, c, p \div 2, 2 * q + d1 + d2 + bit * (a \div c), r2)

\* The highest power of two that is <= b, for 1 <= b < 2^31: p times the
\* highest power of two <= b that is below 2^(2k), by halving k = 16, 8, .., 1.
RECURSIVE TopBitIter(_, _, _)
TopBitIter(b, p, k) ==
    IF p < 0 \/ k = 0 THEN p
    ELSE IF b >= 2^k THEN TopBitIter(b \div 2^k, p * 2^k, k \div 2)
    ELSE TopBitIter(b, p, k \div 2)

TopBit(b) == TopBitIter(b, 1, 16)

\* 1 if the remainder m of a division by c rounds the quotient up, else 0.
RoundUp(m, c) == IF m >= c - m THEN 1 ELSE 0

\* The quotient of a pair <<quotient, remainder>>, rounded to nearest.
QuotRound(qr, c) == qr[1] + RoundUp(qr[2], c)

\* a*b/10^6 for a, b >= 0, by limbs of three decimal digits:
\* a = ah*1000 + al, b = bh*1000 + bl.
MulLimbs(a, b) ==
    LET ah == a \div 1000
        al == a % 1000
        bh == b \div 1000
        bl == b % 1000
        t1 == ah * bl
        t2 == al * bh
        n  == ((t1 % 1000) + (t2 % 1000)) * 1000 + al * bl
    IN ah * bh + t1 \div 1000 + t2 \div 1000 + n \div S + RoundUp(n % S, S)

\* a*10^6/c for a >= 0 and 0 < c <= MaxInt/10, by long division, one
\* decimal digit of the quotient at a time.
DivDigits(a, c) ==
    LET r0 == a % c
        r1 == (r0 * 10) % c
        r2 == (r1 * 10) % c
        r3 == (r2 * 10) % c
        r4 == (r3 * 10) % c
        r5 == (r4 * 10) % c
        r6 == (r5 * 10) % c
    IN (a \div c) * S
       + ((r0 * 10) \div c) * 100000 + ((r1 * 10) \div c) * 10000
       + ((r2 * 10) \div c) * 1000 + ((r3 * 10) \div c) * 100
       + ((r4 * 10) \div c) * 10 + (r5 * 10) \div c
       + RoundUp(r6, c)

\* a*b/c for a, b >= 0, c > 0, rounded to nearest.
MulDivAbs(a, b, c) ==
    IF b = 0 \/ a <= MaxInt \div b
    THEN (a * b) \div c + RoundUp((a * b) % c, c)
    ELSE IF c = S THEN MulLimbs(a, b)
    ELSE IF b = S /\ c <= MaxInt \div 10 THEN DivDigits(a, c)
    ELSE QuotRound(MDIter(Max(a, b), Min(a, b), c, TopBit(Min(a, b)), 0, 0), c)

\* a*b/c rounded to nearest, symmetric in sign (c > 0).
MulDiv(a, b, c) == SameSign(a, b) * MulDivAbs(Abs(a), Abs(b), c)

\* Product and quotient of two fixed-point numbers, and x * dt for dt = 1/n.
Mul(a, b) == SameSign(a, b) * MulLimbs(Abs(a), Abs(b))

Div(a, b) == SameSign(a, b) * MulDivAbs(Abs(a), S, Abs(b))

OverN(a, n) == SameSign(a, 1) * (Abs(a) \div n + RoundUp(Abs(a) % n, n))

RECURSIVE ISqrtIter(_, _)
ISqrtIter(n, g) ==
    LET g2 == (g + n \div g) \div 2
    IN IF g2 >= g THEN g ELSE ISqrtIter(n, g2)

\* floor of the square root of an integer n >= 0.
ISqrt(n) == IF n < 2 THEN n ELSE ISqrtIter(n, n)

\* Newton steps h := (h + (ax*ax + az*az) / h) / 2 in full precision.
RECURSIVE HypotNewton(_, _, _, _)
HypotNewton(ax, az, h, count) ==
    IF h = 0 \/ count = 0 THEN h
    ELSE HypotNewton(ax, az, (h + MulDivAbs(ax, ax, h) + MulDivAbs(az, az, h)) \div 2,
                     count - 1)

\* Math.sqrt(ax*ax + az*az) for ax, az > 0: exact floor when the squares fit
\* (k = 1), otherwise an estimate on operands scaled by k, refined by two
\* Newton steps.
HypotScaled(ax, az, k) ==
    IF k = 1 THEN ISqrt(ax * ax + az * az)
    ELSE HypotNewton(ax, az,
                     k * ISqrt((ax \div k) * (ax \div k) + (az \div k) * (az \div k)), 2)

\* Math.sqrt(x*x + z*z): exact on the axes.
Hypot2(x, z) ==
    IF x = 0 THEN Abs(z)
    ELSE IF z = 0 THEN Abs(x)
    ELSE HypotScaled(Abs(x), Abs(z), Max(Abs(x), Abs(z)) \div 32768 + 1)

Hypot3(x, y, z) == Hypot2(Hypot2(x, z), y)

\* x * x
Square(x) == Mul(x, x)

\* The reciprocal of the 4th-order Taylor polynomial of exp at z, given the
\* powers z2 = z^2 and z3 = z^3.
ExpTaylor(z, z2, z3) == Div(S, S + z + z2 \div 2 + z3 \div 6 + Mul(z3, z) \div 24)

\* Math.exp(-y) for y >= 0: exp(-y) = exp(-y/8)^8.
ExpNeg(y) ==
    LET cube(z, z2) == ExpTaylor(z, z2, Mul(z2, z))
        inner(z)    == cube(z, Mul(z, z))
    IN Square(Square(Square(inner(Min(y, 16 * S) \div 8))))

--------------------------------------------------------------------------
(* Configuration: PHYSICS_CONFIG, in millionths *)

PHYSICS_CONFIG ==
    [ world |->
        [ gravity              |-> 9810000,
          table_friction_slide |-> 25000,
          table_friction_roll  |-> 2000,
          nap_drift_factor     |-> 200,
          nap_direction        |-> [x |-> 0, z |-> -S] ],
      ball |->
        [ mass                     |-> 142000,
          radius                   |-> 26250,
          restitution_ball_ball    |-> 980000,
          restitution_ball_cushion |-> 880000,
          friction_ball_ball       |-> 40000,
          friction_cushion         |-> 100000 ],
      cushion |->
        [ height_ratio              |-> 700000,
          compression_factor        |-> 80000,
          restitution_perpendicular |-> 800000,
          restitution_glancing      |-> 940000 ],
      thresholds |->
        [ velocity_stop  |-> 2000,
          angular_stop   |-> 30000,
          slip_threshold |-> 8000 ],
      collision |->
        [ contact_duration      |-> 200,
          friction_accumulation |-> 1200000 ] ]

\* I = (2/5) * m * R^2, in units of 10^-9 kg m^2 (39139).
MOMENT_OF_INERTIA ==
    OverN(Mul(Mul(400000, PHYSICS_CONFIG.ball.mass), PHYSICS_CONFIG.ball.radius)
          * PHYSICS_CONFIG.ball.radius, 1000)

\* x / I and the energy 0.5 * I * w^2, for I in 10^-9 units.
OverI(x) == MulDiv(x, 1000 * S, MOMENT_OF_INERTIA)

--------------------------------------------------------------------------
(* Ball state *)

Zero3 == [x |-> 0, y |-> 0, z |-> 0]

\* new BallState()
BallState ==
    [ position        |-> Zero3,
      velocity        |-> Zero3,
      angularVelocity |-> Zero3,
      phase           |-> "stationary",
      phaseTime       |-> 0 ]

\* The vector v - w in the plane of the table.
Minus2(v, w) == [x |-> v.x - w.x, z |-> v.z - w.z]

\* Math.sqrt(v.x * v.x + v.z * v.z)
Length2(v) == Hypot2(v.x, v.z)

speed(state) == Length2(state.velocity)

angularSpeed(state) ==
    Hypot3(state.angularVelocity.x, state.angularVelocity.y, state.angularVelocity.z)

surfaceVelocity(state) ==
    [ x |-> Mul(state.angularVelocity.z, PHYSICS_CONFIG.ball.radius),
      z |-> Mul(-state.angularVelocity.x, PHYSICS_CONFIG.ball.radius) ]

slipVelocity(state) == Minus2(state.velocity, surfaceVelocity(state))

slipSpeed(state) == Length2(slipVelocity(state))

isRolling(state) == slipSpeed(state) < PHYSICS_CONFIG.thresholds.slip_threshold

--------------------------------------------------------------------------
(* Phase integrator: updateBallPhysics(state, dt), dt = 1/n *)

\* Ticks of phaseTime per second; the timesteps used are 1/480, 1/120, 1/100.
Ticks == 24 * 100

\* Math.pow(0.995, dt * 60) for the timesteps the program uses.
sideSpinDecay(n) ==
    CASE n = 480 -> 999374
      [] n = 120 -> 997497
      [] n = 100 -> 996997
      [] OTHER   -> S - MulDiv(5013, 60, n)

\* The sliding branch (slipSpeed > slip_threshold): the linear velocity is
\* reduced along the slip direction, then the rolling-plane spin is turned
\* towards natural roll of the new velocity.
slidingStep(state, n) ==
    LET g    == PHYSICS_CONFIG.world.gravity
        R    == PHYSICS_CONFIG.ball.radius
        m    == PHYSICS_CONFIG.ball.mass
        mu_s == PHYSICS_CONFIG.world.table_friction_slide
        turn(st, angDiffX, angDiffZ, angDiffMag, angularChange) ==
            IF angDiffMag > 10000
            THEN [st EXCEPT
                    !.angularVelocity.x =
                        @ + Mul(Div(angDiffX, angDiffMag), angularChange),
                    !.angularVelocity.z =
                        @ + Mul(Div(angDiffZ, angDiffMag), angularChange)]
            ELSE st
        towards(st, angDiffX, angDiffZ, angularAccel) ==
            turn(st, angDiffX, angDiffZ, Hypot2(angDiffX, angDiffZ),
                 OverN(angularAccel, n) * 3)
        spin(st) ==
            towards(st, Div(-st.velocity.z, R) - st.angularVelocity.x,
                        Div(st.velocity.x, R) - st.angularVelocity.z,
                        OverI(Mul(Mul(Mul(mu_s, m), g), R)))
        brake(slip, slipSpd, decelLinear) ==
            [state EXCEPT
               !.phase = "sliding",
               !.velocity.x = @ - Mul(Mul(Div(slip.x, slipSpd), decelLinear), 150000),
               !.velocity.z = @ - Mul(Mul(Div(slip.z, slipSpd), decelLinear), 150000)]
    IN spin(brake(slipVelocity(state), slipSpeed(state), OverN(Mul(mu_s, g), n)))

rollingStepMutant(state, n) ==
    LET g    == PHYSICS_CONFIG.world.gravity
        R    == PHYSICS_CONFIG.ball.radius
        mu_r == PHYSICS_CONFIG.world.table_friction_roll
        sync(st) ==
            [st EXCEPT !.angularVelocity.x = Div(-st.velocity.z, R),
                       !.angularVelocity.z = Div(st.velocity.x, R)]
        scale(factor) ==
            [state EXCEPT !.phase = "rolling",
                          !.velocity.x = Mul(@, factor),
                          !.velocity.z = Mul(@, factor)]
        slow(spd, deltaV) ==
            IF spd > 1000 THEN sync(scale(S - deltaV))
            ELSE [state EXCEPT !.phase = "rolling"]
    IN slow(speed(state), OverN(Mul(mu_r, g), n))

\* The rolling branch (else).  v *= newSpeed / speed is computed as one
\* rounded quotient v * newSpeed / speed.
rollingStep(state, n) ==
    LET g    == PHYSICS_CONFIG.world.gravity
        R    == PHYSICS_CONFIG.ball.radius
        mu_r == PHYSICS_CONFIG.world.table_friction_roll
        sync(st) ==
            [st EXCEPT !.angularVelocity.x = Div(-st.velocity.z, R),
                       !.angularVelocity.z = Div(st.velocity.x, R)]
        scale(spd, newSpeed) ==
            IF spd > 100
            THEN [state EXCEPT !.phase = "rolling",
                               !.velocity.x = MulDiv(@, newSpeed, spd),
                               !.velocity.z = MulDiv(@, newSpeed, spd)]
            ELSE [state EXCEPT !.phase = "rolling"]
        slow(spd, deltaV) ==
            IF spd > 1000 THEN sync(scale(spd, Max(0, spd - deltaV)))
            ELSE [state EXCEPT !.phase = "rolling"]
    IN slow(speed(state), OverN(Mul(mu_r, g), n))

\* Side-spin decay and the swerve effect.
swerveStep(state, n) ==
    LET optimalSpeed    == 1500000
        sigma           == 1200000
        baseSwerveCoeff == 350
        push(st, spd, swerveForce, speedDamping) ==
            [st EXCEPT
               !.velocity.x = @ + Mul(Mul(Mul(Div(-st.velocity.z, spd), swerveForce),
                                          spd), speedDamping),
               !.velocity.z = @ + Mul(Mul(Mul(Div(st.velocity.x, spd), swerveForce),
                                          spd), speedDamping)]
        bellCurve(d) == ExpNeg(Div(Square(d), Square(sigma)))
        effectiveSwerveCoeff(spd) ==
            Mul(Mul(baseSwerveCoeff, bellCurve(Div(spd, optimalSpeed) - S)),
                Min(S, Div(spd, 300000)))
        swerve(st, spd) ==
            IF Abs(st.angularVelocity.y) > 500000 /\ spd > 20000
            THEN push(st, spd,
                      OverN(Mul(st.angularVelocity.y, effectiveSwerveCoeff(spd)), n),
                      Div(S, S + Mul(spd, 300000)))
            ELSE st
        decayed(st) == swerve(st, speed(st))
    IN decayed([state EXCEPT !.angularVelocity.y = Mul(@, sideSpinDecay(n))])

applyNapEffect(state, n) ==
    LET napFactor == PHYSICS_CONFIG.world.nap_drift_factor
        napDir    == PHYSICS_CONFIG.world.nap_direction
        slow(velDirX, velDirZ, extraDecel) ==
            [state EXCEPT !.velocity.x = @ - Mul(velDirX, extraDecel),
                          !.velocity.z = @ - Mul(velDirZ, extraDecel)]
        against(velDirX, velDirZ, napDot) ==
            IF napDot < -300000
            THEN slow(velDirX, velDirZ,
                      OverN(Mul(Mul(napFactor, Abs(napDot)),
                                PHYSICS_CONFIG.world.gravity), n))
            ELSE state
        along(velDirX, velDirZ) ==
            against(velDirX, velDirZ,
                    Mul(velDirX, napDir.x) + Mul(velDirZ, napDir.z))
        nap(spd) ==
            IF spd < 50000 \/ spd > 500000 THEN state
            ELSE along(Div(state.velocity.x, spd), Div(state.velocity.z, spd))
    IN nap(speed(state))

stopBallMutant(state) ==
    [state EXCEPT !.velocity = Zero3,
                  !.phase = "stationary"]

\* The stop branch of updateBallPhysics.
stopBall(state) ==
    [state EXCEPT !.velocity = Zero3,
                  !.angularVelocity = Zero3,
                  !.phase = "stationary"]

stopCondition(state) ==
    /\ speed(state) < PHYSICS_CONFIG.thresholds.velocity_stop
    /\ angularSpeed(state) < PHYSICS_CONFIG.thresholds.angular_stop

frictionStepMutant(state, n) ==
    IF slipSpeed(state) > (IF state.phase = "rolling"
                           THEN 2 * PHYSICS_CONFIG.thresholds.slip_threshold
                           ELSE PHYSICS_CONFIG.thresholds.slip_threshold \div 2)
    THEN slidingStep(state, n)
    ELSE rollingStep(state, n)

\* The friction force: the sliding or the rolling branch.
frictionStep(state, n) ==
    IF slipSpeed(state) > PHYSICS_CONFIG.thresholds.slip_threshold
    THEN slidingStep(state, n)
    ELSE rollingStep(state, n)

\* Position integration and phaseTime increment.
integrate(state, n) ==
    [state EXCEPT !.position.x = @ + OverN(state.velocity.x, n),
                  !.position.z = @ + OverN(state.velocity.z, n),
                  !.phaseTime  = @ + Ticks \div n]

updateBallPhysics(state, n) ==
    IF stopCondition(state) THEN stopBall(state)
    ELSE integrate(applyNapEffect(swerveStep(frictionStep(state, n), n), n), n)

--------------------------------------------------------------------------
(* Elementary functions used by the collision and cushion models *)

\* atan(t) in radians for 0 <= t <= 1:
\* (pi/4) t - t (t - 1) (0.2447 + 0.0663 t), error below 0.0015 rad.
AtanUnit(t) == Mul(785398, t) - Mul(Mul(t, t - S), 244700 + Mul(66300, t))

\* Math.atan2(y, x) * 180 / Math.PI for y, x >= 0, in degrees.
Atan2Deg(y, x) ==
    IF y = 0 THEN 0
    ELSE IF y <= x THEN Mul(AtanUnit(Div(y, x)), 57295780)
    ELSE 90 * S - Mul(AtanUnit(Div(x, y)), 57295780)

\* cos(h * pi) for 0 <= h <= 1/2 (Bhaskara's rational approximation), given
\* hh = h * h.
CosHalf(hh) == Div(S - 4 * hh, S + hh)

\* Math.cos(f * Math.PI) for 0 <= f <= 1.
CosPi(f) ==
    IF f <= S \div 2 THEN CosHalf(Square(f)) ELSE -CosHalf(Square(S - f))

\* Math.sin and Math.cos of the aim angles of the model, given in degrees.
sin(angle) ==
    CASE angle = 0   -> 0
      [] angle = 37  -> 601815
      [] angle = 90  -> S
      [] angle = 180 -> 0
      [] angle = 262 -> -990268
      [] angle = 270 -> -S

cos(angle) ==
    CASE angle = 0   -> S
      [] angle = 37  -> 798636
      [] angle = 90  -> 0
      [] angle = 180 -> -S
      [] angle = 262 -> -139173
      [] angle = 270 -> 0

--------------------------------------------------------------------------
(* Ball-ball collision: calculateBallCollision(ballA, ballB) *)

\* The penetration correction (dist < 2R): the corrected positions.
penetrationCorrection(ballA, ballB, nx, nz, dist) ==
    LET R           == PHYSICS_CONFIG.ball.radius
        minDist     == R * 2
        penetration == minDist - dist
        move(ratioA, ratioB) ==
            [ ballA |-> [ballA EXCEPT
                           !.position.x = @ - Mul(Mul(nx, penetration), ratioA),
                           !.position.z = @ - Mul(Mul(nz, penetration), ratioA)],
              ballB |-> [ballB EXCEPT
                           !.position.x = @ + Mul(Mul(nx, penetration), ratioB),
                           !.position.z = @ + Mul(Mul(nz, penetration), ratioB)] ]
        share(speedA, speedB, totalSpeed) ==
            move(Div(speedB, totalSpeed), Div(speedA, totalSpeed))
        speeds(speedA, speedB) == share(speedA, speedB, speedA + speedB + 1000)
    IN IF dist < minDist
       THEN speeds(Length2(ballA.velocity), Length2(ballB.velocity))
       ELSE [ ballA |-> ballA, ballB |-> ballB ]

throwFactorMutant(dvn) ==
    S + Mul(Max(S, Div(2 * S, dvn + 500000)) - S, 300000)

\* 1.0 + (speedFactor - 1.0) * 0.3 with speedFactor = Math.min(1.0, 2.0 / (dvn + 0.5)):
\* the factor applied to the Coulomb-limited friction impulse.
throwFactor(dvn) ==
    S + Mul(Min(S, Div(2 * S, dvn + 500000)) - S, 300000)

throwImpulseMutant(normalImpulse, totalTangentVel, dvn) ==
    LET m == PHYSICS_CONFIG.ball.mass
        desiredImpulse == Mul(Mul(m, totalTangentVel), 500000)
    IN IF Abs(totalTangentVel) > 10000
       THEN Mul(desiredImpulse, throwFactor(dvn))
       ELSE 0

\* The friction ("throw") impulse for closing speed dvn and tangential
\* contact speed totalTangentVel.
throwImpulse(normalImpulse, totalTangentVel, dvn) ==
    LET m   == PHYSICS_CONFIG.ball.mass
        mu  == PHYSICS_CONFIG.ball.friction_ball_ball
        frictionAccum == PHYSICS_CONFIG.collision.friction_accumulation
        maxFrictionImpulse == Mul(Mul(mu, normalImpulse), frictionAccum)
        desiredImpulse == Mul(Mul(m, totalTangentVel), 500000)
        limited     == Sign(totalTangentVel) * Min(maxFrictionImpulse, Abs(desiredImpulse))
    IN IF Abs(totalTangentVel) > 10000
       THEN Mul(limited, throwFactor(dvn))
       ELSE 0

\* The velocity change (impulse / m) each ball receives, with its sign.
impulseOnAMutant(nx, nz, normalImpulse, frictionImpulse) ==
    [ x |-> -Div(Mul(normalImpulse, nx), PHYSICS_CONFIG.ball.mass),
      z |-> -Div(Mul(normalImpulse, nz), PHYSICS_CONFIG.ball.mass) ]

impulseOnA(nx, nz, normalImpulse, frictionImpulse) ==
    [ x |-> -Div(Mul(normalImpulse, nx) + Mul(frictionImpulse, -nz),
                 PHYSICS_CONFIG.ball.mass),
      z |-> -Div(Mul(normalImpulse, nz) + Mul(frictionImpulse, nx),
                 PHYSICS_CONFIG.ball.mass) ]

impulseOnBMutant(nx, nz, normalImpulse, frictionImpulse) ==
    [ x |-> Div(Mul(normalImpulse, nx), PHYSICS_CONFIG.ball.mass),
      z |-> Div(Mul(normalImpulse, nz), PHYSICS_CONFIG.ball.mass) ]

impulseOnB(nx, nz, normalImpulse, frictionImpulse) ==
    [ x |-> Div(Mul(normalImpulse, nx) + Mul(frictionImpulse, -nz),
                PHYSICS_CONFIG.ball.mass),
      z |-> Div(Mul(normalImpulse, nz) + Mul(frictionImpulse, nx),
                PHYSICS_CONFIG.ball.mass) ]

\* The impulses applied to both balls, the spin transfer and the phases.
applyImpulses(ballA, ballB, nx, nz, normalImpulse, frictionImpulse) ==
    LET R == PHYSICS_CONFIG.ball.radius
        roll(b, speedB) ==
            IF speedB > 10000
            THEN [b EXCEPT !.angularVelocity.x = Mul(Div(-b.velocity.z, R), 920000),
                           !.angularVelocity.z = Mul(Div(b.velocity.x, R), 920000),
                           !.phase = "sliding"]
            ELSE b
        struck(b) == roll(b, speed(b))
        hitA(dA, angularChange) ==
            [ballA EXCEPT
               !.velocity.x = @ + dA.x,
               !.velocity.z = @ + dA.z,
               !.angularVelocity.y = Mul(@, 900000) - Mul(angularChange, 200000),
               !.angularVelocity.x = Mul(@, 950000),
               !.angularVelocity.z = Mul(@, 950000),
               !.phase = "sliding",
               !.phaseTime = 0]
        hitB(dB, angularChange) ==
            struck([ballB EXCEPT
                      !.velocity.x = @ + dB.x,
                      !.velocity.z = @ + dB.z,
                      !.angularVelocity.y = @ + Mul(angularChange, 150000),
                      !.phaseTime = 0])
        both(dA, dB, angularChange) ==
            [ ballA |-> hitA(dA, angularChange), ballB |-> hitB(dB, angularChange) ]
    IN both(impulseOnA(nx, nz, normalImpulse, frictionImpulse),
            impulseOnB(nx, nz, normalImpulse, frictionImpulse),
            OverI(Mul(frictionImpulse, R)))

\* Math.sqrt(dx*dx + dz*dz) of the vector from A to B.
centreDistance(ballA, ballB) ==
    Hypot2(ballB.position.x - ballA.position.x, ballB.position.z - ballA.position.z)

outOfRangeMutant(dist) == dist < 100 \/ 2 * dist > 5 * S

\* The early return on dist < 0.0001 || dist > R * 2.5.
outOfRange(dist) == dist < 100 \/ 2 * dist > 5 * PHYSICS_CONFIG.ball.radius

inGatingRange(ballA, ballB) == ~outOfRange(centreDistance(ballA, ballB))

\* dvx * nx + dvz * nz
normalVelocity(dvx, dvz, nx, nz) == Mul(dvx, nx) + Mul(dvz, nz)

\* dvn: the relative velocity of A to B along the normal from A to B.
closingVelocity(ballA, ballB) ==
    LET normal(dx, dz, dist) ==
            normalVelocity(ballA.velocity.x - ballB.velocity.x,
                           ballA.velocity.z - ballB.velocity.z,
                           Div(dx, dist), Div(dz, dist))
    IN normal(ballB.position.x - ballA.position.x,
              ballB.position.z - ballA.position.z,
              centreDistance(ballA, ballB))

normalImpulseForMutant(dvn) ==
    Mul(Mul(S + PHYSICS_CONFIG.ball.restitution_ball_ball, PHYSICS_CONFIG.ball.mass), dvn)

\* normalImpulse = (1 + e) * m * dvn / 2
normalImpulseFor(dvn) ==
    Mul(Mul(S + PHYSICS_CONFIG.ball.restitution_ball_ball, PHYSICS_CONFIG.ball.mass), dvn)
        \div 2

\* dvt: the relative velocity of A to B along the tangent (-nz, nx).
tangentialVelocity(ballA, ballB) ==
    LET tangent(dx, dz, dist) ==
            normalVelocity(ballA.velocity.x - ballB.velocity.x,
                           ballA.velocity.z - ballB.velocity.z,
                           -Div(dz, dist), Div(dx, dist))
    IN tangent(ballB.position.x - ballA.position.x,
               ballB.position.z - ballA.position.z,
               centreDistance(ballA, ballB))

notApproachingMutant(dvn) == dvn < 0

\* if (dvn <= 0) return
notApproaching(dvn) == dvn <= 0

\* Result: the two ball states, whether the contact was resolved (a
\* throwAngle is reported), and the throwAngle in degrees.
calculateBallCollision(ballA, ballB) ==
    LET m   == PHYSICS_CONFIG.ball.mass
        R   == PHYSICS_CONFIG.ball.radius
        e   == PHYSICS_CONFIG.ball.restitution_ball_ball
        dvx == ballA.velocity.x - ballB.velocity.x
        dvz == ballA.velocity.z - ballB.velocity.z
        result(out, throwAngle) ==
            [ ballA |-> out.ballA, ballB |-> out.ballB, resolved |-> TRUE,
              throwAngle |-> throwAngle ]
        exchange(sep, nx, nz, normalImpulse, frictionImpulse) ==
            result(applyImpulses(sep.ballA, sep.ballB, nx, nz,
                                 normalImpulse, frictionImpulse),
                   Atan2Deg(Abs(frictionImpulse), normalImpulse))
        throw(sep, nx, nz, dvn, dvt, normalImpulse) ==
            exchange(sep, nx, nz, normalImpulse,
                     throwImpulse(normalImpulse,
                                  dvt + Mul(ballA.angularVelocity.y, R), dvn))
        approach(sep, nx, nz, dvn) ==
            IF notApproaching(dvn)
            THEN [ ballA |-> sep.ballA, ballB |-> sep.ballB,
                   resolved |-> FALSE, throwAngle |-> 0 ]
            ELSE throw(sep, nx, nz, dvn, normalVelocity(dvx, dvz, -nz, nx),
                       normalImpulseFor(dvn))
        contact(dist, nx, nz) ==
            approach(penetrationCorrection(ballA, ballB, nx, nz, dist), nx, nz,
                     normalVelocity(dvx, dvz, nx, nz))
        gate(dx, dz, dist) ==
            IF outOfRange(dist)
            THEN [ ballA |-> ballA, ballB |-> ballB,
                   resolved |-> FALSE, throwAngle |-> 0 ]
            ELSE contact(dist, Div(dx, dist), Div(dz, dist))
    IN gate(ballB.position.x - ballA.position.x,
            ballB.position.z - ballA.position.z,
            centreDistance(ballA, ballB))

--------------------------------------------------------------------------
(* Cushion rebound: calculateCushionRebound(ball, cushion, impactSpeed) *)

\* The switch on the rail name: the inward normal, (0, 0) for any other name.
cushionNormal(cushion) ==
    CASE cushion = "left"   -> [x |-> 1,  z |-> 0]
      [] cushion = "right"  -> [x |-> -1, z |-> 0]
      [] cushion = "top"    -> [x |-> 0,  z |-> 1]
      [] cushion = "bottom" -> [x |-> 0,  z |-> -1]
      [] OTHER              -> [x |-> 0,  z |-> 0]

effectiveCorMutant(angleDeg, impactSpeed) ==
    LET corPerpendicular == PHYSICS_CONFIG.cushion.restitution_perpendicular
        corGlancing      == PHYSICS_CONFIG.cushion.restitution_glancing
        compression      == PHYSICS_CONFIG.cushion.compression_factor
        shallowFactor == angleDeg \div 8
        smoothFactor  == S \div 2 - Mul(500000, CosPi(shallowFactor))
        midFactor     == OverN(angleDeg - 8 * S, 22)
        wideFactor    == OverN(angleDeg - 30 * S, 30)
        piecewise ==
            IF angleDeg < 8 * S
            THEN 600000 + Mul(smoothFactor, corPerpendicular - 600000)
            ELSE IF angleDeg < 30 * S
            THEN corPerpendicular + Mul(midFactor, 880000 - corPerpendicular)
            ELSE IF angleDeg < 60 * S
            THEN corGlancing + Mul(wideFactor, 880000 - corGlancing)
            ELSE corGlancing
        speedFactor     == Min(S, impactSpeed \div 6)
        compressionLoss == Mul(Mul(compression, speedFactor), 300000)
    IN Max(650000, Min(960000, Mul(piecewise, S - compressionLoss)))

effectiveCorClampMutant(angleDeg, impactSpeed) ==
    LET corPerpendicular == PHYSICS_CONFIG.cushion.restitution_perpendicular
        corGlancing      == PHYSICS_CONFIG.cushion.restitution_glancing
        compression      == PHYSICS_CONFIG.cushion.compression_factor
        shallowFactor == angleDeg \div 8
        smoothFactor  == S \div 2 - Mul(500000, CosPi(shallowFactor))
        midFactor     == OverN(angleDeg - 8 * S, 22)
        wideFactor    == OverN(angleDeg - 30 * S, 30)
        piecewise ==
            IF angleDeg < 8 * S
            THEN 600000 + Mul(smoothFactor, corPerpendicular - 600000)
            ELSE IF angleDeg < 30 * S
            THEN corPerpendicular + Mul(midFactor, 880000 - corPerpendicular)
            ELSE IF angleDeg < 60 * S
            THEN 880000 + Mul(wideFactor, corGlancing - 880000)
            ELSE corGlancing
        speedFactor     == Min(S, impactSpeed \div 6)
        compressionLoss == Mul(Mul(compression, speedFactor), 300000)
    IN Mul(piecewise, S - compressionLoss)

\* The piecewise coefficient of restitution, compression loss and clamp,
\* for an incidence angle in degrees.
effectiveCor(angleDeg, impactSpeed) ==
    LET corPerpendicular == PHYSICS_CONFIG.cushion.restitution_perpendicular
        corGlancing      == PHYSICS_CONFIG.cushion.restitution_glancing
        compression      == PHYSICS_CONFIG.cushion.compression_factor
        shallowFactor == angleDeg \div 8
        smoothFactor  == S \div 2 - Mul(500000, CosPi(shallowFactor))
        midFactor     == OverN(angleDeg - 8 * S, 22)
        wideFactor    == OverN(angleDeg - 30 * S, 30)
        piecewise ==
            IF angleDeg < 8 * S
            THEN 600000 + Mul(smoothFactor, corPerpendicular - 600000)
            ELSE IF angleDeg < 30 * S
            THEN corPerpendicular + Mul(midFactor, 880000 - corPerpendicular)
            ELSE IF angleDeg < 60 * S
            THEN 880000 + Mul(wideFactor, corGlancing - 880000)
            ELSE corGlancing
        speedFactor     == Min(S, impactSpeed \div 6)
        compressionLoss == Mul(Mul(compression, speedFactor), 300000)
    IN Max(650000, Min(960000, Mul(piecewise, S - compressionLoss)))

tangentRetention(angleDeg) ==
    IF angleDeg < 8 * S THEN 880000 + Mul(angleDeg \div 8, 80000) ELSE 970000

calculateCushionRebound(ball, cushion, impactSpeed) ==
    LET R           == PHYSICS_CONFIG.ball.radius
        heightRatio == PHYSICS_CONFIG.cushion.height_ratio
        normalX  == cushionNormal(cushion).x
        normalZ  == cushionNormal(cushion).z
        tangentX == -normalZ
        tangentZ == normalX
        velNormal  == ball.velocity.x * normalX + ball.velocity.z * normalZ
        velTangent == ball.velocity.x * tangentX + ball.velocity.z * tangentZ
        sideSpin      == ball.angularVelocity.y
        spinInfluence == Mul(Mul(sideSpin, R), 150000)
        topBackSpin   == ball.angularVelocity.x * tangentZ
                         - ball.angularVelocity.z * tangentX
        gripFactor    == S + Mul(Mul(Mul(topBackSpin, R), heightRatio), 12000)
        leave(newVelNormal, newVelTangent) ==
            [ball EXCEPT
               !.velocity.x = newVelNormal * normalX + newVelTangent * tangentX,
               !.velocity.z = newVelNormal * normalZ + newVelTangent * tangentZ,
               !.angularVelocity.y = Mul(@, 800000),
               !.angularVelocity.x = Mul(@, 950000),
               !.angularVelocity.z = Mul(@, 950000),
               !.phase = "sliding",
               !.phaseTime = 0]
        reflect(angleDeg) ==
            leave(Mul(-velNormal, effectiveCor(angleDeg, impactSpeed)),
                  Mul(Mul(velTangent, tangentRetention(angleDeg)), gripFactor)
                  + spinInfluence)
    IN reflect(Atan2Deg(Abs(velTangent), Abs(velNormal)))

--------------------------------------------------------------------------
(* Cue strike: applyShot(ball, power, angle, spinX, spinY, maxSpeed) *)

applyShotMutant(ball, power, angle, spinX, spinY, maxSpeed) ==
    LET R    == PHYSICS_CONFIG.ball.radius
        dirX == sin(angle)
        dirZ == cos(angle)
        strike(spd, rollSpin) ==
            [ball EXCEPT
               !.velocity.x = Mul(dirX, spd),
               !.velocity.z = Mul(dirZ, spd),
               !.angularVelocity.x = Mul(-dirZ, rollSpin),
               !.angularVelocity.z = Mul(dirX, rollSpin),
               !.angularVelocity.y = Mul(Mul(spinX, spd), 8 * S),
               !.phase = "sliding",
               !.phaseTime = 0]
        spin(spd, naturalOmega) ==
            strike(spd, Mul(Mul(spinY, naturalOmega), 2500000)
                        + (IF spinY = 0 THEN Mul(naturalOmega, 400000) ELSE 0))
    IN IF power = 0 THEN ball
       ELSE spin(Mul(power, maxSpeed), Div(Mul(power, maxSpeed), R))

applyShot(ball, power, angle, spinX, spinY, maxSpeed) ==
    LET R    == PHYSICS_CONFIG.ball.radius
        dirX == sin(angle)
        dirZ == cos(angle)
        rotAxisX == -dirZ
        rotAxisZ == dirX
        strike(spd, rollSpin) ==
            [ball EXCEPT
               !.velocity.x = Mul(dirX, spd),
               !.velocity.z = Mul(dirZ, spd),
               !.angularVelocity.x = Mul(rotAxisX, rollSpin),
               !.angularVelocity.z = Mul(rotAxisZ, rollSpin),
               !.angularVelocity.y = Mul(Mul(spinX, spd), 8 * S),
               !.phase = "sliding",
               !.phaseTime = 0]
        spin(spd, naturalOmega) ==
            strike(spd, Mul(Mul(spinY, naturalOmega), 2500000)
                        + (IF spinY = 0 THEN Mul(naturalOmega, 400000) ELSE 0))
    IN spin(Mul(power, maxSpeed), Div(Mul(power, maxSpeed), R))

\* Total kinetic plus rotational energy of one ball, as getBallDiagnostics
\* reports it: 0.5 * m * speed^2 + 0.5 * I * angularSpeed^2 (micro-joule).
kineticEnergy(state) ==
    LET half(spd) == Mul(Mul(PHYSICS_CONFIG.ball.mass \div 2, spd), spd)
    IN half(speed(state))

rotationalEnergy(state) ==
    LET half(w) == MulDiv(MulDiv(MOMENT_OF_INERTIA, w, 2 * S), w, 1000 * S)
    IN half(angularSpeed(state))

totalEnergy(state) == kineticEnergy(state) + rotationalEnergy(state)

--------------------------------------------------------------------------
(* The divisions by a quantity of the state, with the tests that guard them *)

updateDivisorsMutant(state, n) ==
    LET R == PHYSICS_CONFIG.ball.radius
        angularGap(st) ==
            Hypot2(Div(-st.velocity.z, R) - state.angularVelocity.x,
                   Div(st.velocity.x, R) - state.angularVelocity.z)
        sliding(gap) ==
            {slipSpeed(state)} \cup (IF gap > 10000 THEN {gap} ELSE {})
        rolling(spd) == IF spd > 1000 /\ spd > 100 THEN {spd} ELSE {}
        swerve(st, spd) ==
            IF Abs(Mul(st.angularVelocity.y, sideSpinDecay(n))) > 500000 /\ spd > 20000
            THEN {spd} ELSE {}
        nap(spd) == {spd}
        after(st) == swerve(st, speed(st)) \cup nap(speed(swerveStep(st, n)))
    IN IF stopCondition(state) THEN {}
       ELSE (IF slipSpeed(state) > PHYSICS_CONFIG.thresholds.slip_threshold
             THEN sliding(angularGap(slidingStep(state, n)))
             ELSE rolling(speed(state)))
            \cup after(frictionStep(state, n))

\* The divisors of updateBallPhysics(state, dt), applyNapEffect included:
\* slipSpeed (slip direction) and angDiffMag in the sliding branch, speed
\* (scaleFactor) in the rolling branch, speed in the swerve effect (perpX,
\* perpZ) and speed in applyNapEffect (velDirX, velDirZ).
updateDivisors(state, n) ==
    LET R == PHYSICS_CONFIG.ball.radius
        angularGap(st) ==
            Hypot2(Div(-st.velocity.z, R) - state.angularVelocity.x,
                   Div(st.velocity.x, R) - state.angularVelocity.z)
        sliding(gap) ==
            {slipSpeed(state)} \cup (IF gap > 10000 THEN {gap} ELSE {})
        rolling(spd) == IF spd > 1000 /\ spd > 100 THEN {spd} ELSE {}
        swerve(st, spd) ==
            IF Abs(Mul(st.angularVelocity.y, sideSpinDecay(n))) > 500000 /\ spd > 20000
            THEN {spd} ELSE {}
        nap(spd) == IF spd < 50000 \/ spd > 500000 THEN {} ELSE {spd}
        after(st) == swerve(st, speed(st)) \cup nap(speed(swerveStep(st, n)))
    IN IF stopCondition(state) THEN {}
       ELSE (IF slipSpeed(state) > PHYSICS_CONFIG.thresholds.slip_threshold
             THEN sliding(angularGap(slidingStep(state, n)))
             ELSE rolling(speed(state)))
            \cup after(frictionStep(state, n))

\* The divisors of calculateBallCollision(ballA, ballB): dist (normal),
\* totalSpeed (penetration correction) and dvn + 0.5 (speedFactor).
collisionDivisors(ballA, ballB) ==
    LET R == PHYSICS_CONFIG.ball.radius
        correction(dist) ==
            IF dist < 2 * R
            THEN {Length2(ballA.velocity) + Length2(ballB.velocity) + 1000}
            ELSE {}
        throw(dvn, totalTangentVel) ==
            IF ~notApproaching(dvn) /\ Abs(totalTangentVel) > 10000
            THEN {dvn + 500000}
            ELSE {}
        contact(dist) ==
            {dist} \cup correction(dist)
                \cup throw(closingVelocity(ballA, ballB),
                           tangentialVelocity(ballA, ballB)
                               + Mul(ballA.angularVelocity.y, R))
        gate(dist) == IF outOfRange(dist) THEN {} ELSE contact(dist)
    IN gate(centreDistance(ballA, ballB))

--------------------------------------------------------------------------
(* Trajectory prediction: predictTrajectory(initialState, duration, dt) *)

\* The value undefined as an operand of < and >: no speed is negative.
Undefined == -1

\* a < b in JavaScript: false when an operand is undefined or NaN.
lessThan(a, b) == a # Undefined /\ b # Undefined /\ a < b

\* copy.speed, copy.angularSpeed and copy.slipSpeed of the object made by
\* JSON.parse(JSON.stringify(initialState)).  The getters are defined on
\* BallState.prototype; JSON.stringify writes the own fields position,
\* velocity, angularVelocity, phase and phaseTime only, so the copy is a
\* plain object on which these names are not defined.
copyGetter(copy) == Undefined

\* updateBallPhysics(copy, dt) on such a copy.  Every test on a getter is a
\* comparison with undefined; napDot of applyNapEffect is NaN.
updateCopy(copy, n) ==
    LET thresholds == PHYSICS_CONFIG.thresholds
        nap(st) ==
            IF lessThan(copyGetter(st), 50000) \/ lessThan(500000, copyGetter(st))
            THEN st
            ELSE IF lessThan(Undefined, -300000) THEN applyNapEffect(st, n)
            ELSE st
        spin(st) ==
            IF Abs(st.angularVelocity.y) > 500000 /\ lessThan(20000, copyGetter(st))
            THEN swerveStep(st, n)
            ELSE [st EXCEPT !.angularVelocity.y = Mul(@, sideSpinDecay(n))]
        friction ==
            IF lessThan(thresholds.slip_threshold, copyGetter(copy))
            THEN slidingStep(copy, n)
            ELSE IF lessThan(1000, copyGetter(copy)) THEN rollingStep(copy, n)
            ELSE [copy EXCEPT !.phase = "rolling"]
    IN IF /\ lessThan(copyGetter(copy), thresholds.velocity_stop)
          /\ lessThan(copyGetter(copy), thresholds.angular_stop)
       THEN stopBall(copy)
       ELSE integrate(nap(spin(friction)), n)

\* One entry of the trajectory.
sample(state) ==
    [x |-> state.position.x, z |-> state.position.z, phase |-> state.phase]

\* The loop of predictTrajectory: a sample, a step, and the break on
\* state.speed < velocity_stop.  Result: the trajectory and the object the
\* loop has stepped, as it is at the end.
RECURSIVE predictLoop(_, _, _, _)
predictLoop(state, n, remaining, trajectory) ==
    IF remaining = 0 THEN [trajectory |-> trajectory, state |-> state]
    ELSE LET after(st, traj) ==
                 IF lessThan(copyGetter(st), PHYSICS_CONFIG.thresholds.velocity_stop)
                 THEN [trajectory |-> traj, state |-> st]
                 ELSE predictLoop(st, n, remaining - 1, traj)
         IN after(updateCopy(state, n), Append(trajectory, sample(state)))

argumentAfterMutant(initialState, state) == state

\* const state = JSON.parse(JSON.stringify(initialState)): the loop steps a
\* new object, so the object the caller passed is, after the loop, what it
\* was before, whatever state has become.
argumentAfter(initialState, state) == initialState

\* duration in millionths of a second, dt = 1/n; steps = Math.ceil(duration / dt).
\* Result: the trajectory returned and the caller's object after the call.
predictTrajectory(initialState, duration, n) ==
    LET returns(loop) ==
            [ trajectory   |-> loop.trajectory,
              initialState |-> argumentAfter(initialState, loop.state) ]
    IN returns(predictLoop(initialState, n, (duration * n + S - 1) \div S, <<>>))

--------------------------------------------------------------------------
(* The engine's entry points as operations on two balls *)

MaxSteps == 3

Balls == {1, 2}

\* Timesteps: 1/480 (host substep) and 1/120.
Timesteps == {480, 120}

Cushions == {"left", "right", "top", "bottom", "none"}

\* predictTrajectory: durations of 0.02 s and 0.05 s at the default dt = 0.01.
Durations == {20000, 50000}

\* Cue strikes: power, aim angle (degrees), spinX, spinY; maxSpeed is 8.
Shots ==
    { [power |-> 250000,  angle |-> 0,   spinX |-> 0,       spinY |-> 0],
      [power |-> 1000,    angle |-> 0,   spinX |-> 0,       spinY |-> 0],
      [power |-> 100,     angle |-> 0,   spinX |-> 0,       spinY |-> 0],
      [power |-> S,       angle |-> 262, spinX |-> 0,       spinY |-> -300000],
      [power |-> 250000,  angle |-> 180, spinX |-> 500000,  spinY |-> 0],
      [power |-> 50000,   angle |-> 37,  spinX |-> -500000, spinY |-> S],
      [power |-> 50000,   angle |-> 0,   spinX |-> 0,       spinY |-> 400000],
      [power |-> 50000,   angle |-> 270, spinX |-> 0,       spinY |-> 400000],
      [power |-> 250000,  angle |-> 37,  spinX |-> 0,       spinY |-> 400000],
      [power |-> 100,     angle |-> 0,   spinX |-> 0,       spinY |-> S],
      [power |-> 0,       angle |-> 0,   spinX |-> 0,       spinY |-> 0] }

\* Where the host spots the second ball relative to the cue ball at the
\* origin: touching (2R), overlapping, out of the gating distance, and on
\* the cue ball's centre.
Spots ==
    { [x |-> 0, y |-> 0, z |-> 52500],
      [x |-> 0, y |-> 0, z |-> 50000],
      [x |-> 0, y |-> 0, z |-> 200000],
      [x |-> 0, y |-> 0, z |-> 0] }

\* A ball whose state the host has filled from its rigid body while the body
\* had a vertical velocity (stateB.velocity = { x: velB.x, y: velB.y, z: velB.z }),
\* here 0.1 m/s, lying out of the gating distance.
Airborne ==
    [BallState EXCEPT !.position = [x |-> 0, y |-> 0, z |-> 200000],
                      !.velocity.y = 100000,
                      !.phase = "sliding"]

\* The second ball at the start.
Objects == {[BallState EXCEPT !.position = spot] : spot \in Spots} \cup {Airborne}

NoOp == [name |-> "none"]

HostIdle ==
    /\ hpc = "off"
    /\ substep = 0
    /\ frame = 0
    /\ bodies = <<>>
    /\ hlog = <<>>

Init ==
    /\ \E object \in Objects :
          balls = [i \in Balls |-> IF i = 1 THEN BallState ELSE object]
    /\ pre = balls
    /\ lastOp = NoOp
    /\ steps = 0
    /\ HostIdle

HostUnchanged == UNCHANGED <<hpc, substep, frame, bodies, hlog>>

\* applyShot on the cue ball.
ApplyShot(shot) ==
    /\ steps < MaxSteps
    /\ balls' = [balls EXCEPT ![1] =
                    applyShot(balls[1], shot.power, shot.angle,
                              shot.spinX, shot.spinY, 8 * S)]
    /\ pre' = balls
    /\ lastOp' = [name |-> "applyShot", ball |-> 1, shot |-> shot]
    /\ steps' = steps + 1
    /\ HostUnchanged

\* updateBallPhysics(state, 1/n) on one ball.
UpdateBallPhysics(i, n) ==
    /\ steps < MaxSteps
    /\ balls' = [balls EXCEPT ![i] = updateBallPhysics(balls[i], n)]
    /\ pre' = balls
    /\ lastOp' = [name |-> "updateBallPhysics", ball |-> i, n |-> n]
    /\ steps' = steps + 1
    /\ HostUnchanged

\* calculateBallCollision(balls[a], balls[b]).
CalculateBallCollision(a, b) ==
    /\ steps < MaxSteps
    /\ a # b
    /\ LET returns(r) ==
               /\ balls' = [balls EXCEPT ![a] = r.ballA, ![b] = r.ballB]
               /\ lastOp' = [name |-> "calculateBallCollision",
                             ballA |-> a, ballB |-> b,
                             resolved |-> r.resolved, throwAngle |-> r.throwAngle]
       IN returns(calculateBallCollision(balls[a], balls[b]))
    /\ pre' = balls
    /\ steps' = steps + 1
    /\ HostUnchanged

\* calculateCushionRebound(state, cushion, state.speed).
CalculateCushionRebound(i, cushion) ==
    /\ steps < MaxSteps
    /\ balls' = [balls EXCEPT ![i] =
                    calculateCushionRebound(balls[i], cushion, speed(balls[i]))]
    /\ pre' = balls
    /\ lastOp' = [name |-> "calculateCushionRebound", ball |-> i, cushion |-> cushion]
    /\ steps' = steps + 1
    /\ HostUnchanged

\* predictTrajectory(state, duration, 0.01) on one ball.  lastOp.previous is
\* the trajectory the preceding call returned when that was the same call on
\* the same ball, and empty otherwise.
PredictTrajectory(i, duration) ==
    /\ steps < MaxSteps
    /\ LET same == /\ lastOp.name = "predictTrajectory"
                    /\ lastOp.ball = i
                    /\ lastOp.duration = duration
           returns(r) ==
               /\ balls' = [balls EXCEPT ![i] = r.initialState]
               /\ lastOp' = [name |-> "predictTrajectory", ball |-> i,
                             duration |-> duration, trajectory |-> r.trajectory,
                             previous |-> IF same THEN lastOp.trajectory ELSE <<>>]
       IN returns(predictTrajectory(balls[i], duration, 100))
    /\ pre' = balls
    /\ steps' = steps + 1
    /\ HostUnchanged

Next ==
    \/ \E shot \in Shots : ApplyShot(shot)
    \/ \E i \in Balls, n \in Timesteps : UpdateBallPhysics(i, n)
    \/ \E a \in Balls, b \in Balls : CalculateBallCollision(a, b)
    \/ \E i \in Balls, cushion \in Cushions : CalculateCushionRebound(i, cushion)
    \/ \E i \in Balls, duration \in Durations : PredictTrajectory(i, duration)

Spec == Init /\ [][Next]_vars

--------------------------------------------------------------------------
(* The cushion's coefficient of restitution as a function of the incidence *)
(* angle: successive evaluations at one impact speed.  lastOp is the       *)
(* evaluation just made, pre the one before it.                            *)

\* Incidence angles in degrees: every second degree from 0 to 88 and the
\* values next to the segment boundaries at 8, 30, 60 and 90 degrees.
CorAngles ==
    {2 * a * S : a \in 0..44}
        \cup {8 * S - 1, 30 * S - 1, 60 * S - 1, 90 * S - 1, 89 * S}

\* Impact speeds: 0.5, 3 and 8 m/s (the compression loss saturates at 6 m/s).
ImpactSpeeds == {500000, 3 * S, 8 * S}

\* One evaluation of the coefficient.
corCall(angleDeg, impactSpeed) ==
    [name |-> "effectiveCor", angleDeg |-> angleDeg, impactSpeed |-> impactSpeed,
     effectiveCor |-> effectiveCor(angleDeg, impactSpeed)]

CorInit ==
    /\ \E angleDeg \in CorAngles, impactSpeed \in ImpactSpeeds :
          lastOp = corCall(angleDeg, impactSpeed)
    /\ pre = lastOp
    /\ balls = <<>>
    /\ steps = 0
    /\ HostIdle

\* The coefficient for another incidence angle at the same impact speed.
EffectiveCor(angleDeg) ==
    /\ lastOp' = corCall(angleDeg, lastOp.impactSpeed)
    /\ pre' = lastOp
    /\ UNCHANGED <<balls, steps>>
    /\ HostUnchanged

CorNext == \E angleDeg \in CorAngles : EffectiveCor(angleDeg)

CorSpec == CorInit /\ [][CorNext]_vars

--------------------------------------------------------------------------
(* The factor on the throw impulse as a function of the closing speed:     *)
(* successive evaluations.  lastOp is the evaluation just made, pre the    *)
(* one before it (none at the start).                                      *)

\* Closing speeds dvn > 0 from 0.05 to 12 m/s; speedFactor leaves 1 at 1.5 m/s.
ClosingSpeeds ==
    { 50000, 100000, 320000, 500000, S, 1500000, 1600000,
      2 * S, 3 * S, 4 * S, 6 * S, 8 * S, 12 * S }

\* One evaluation of the factor.
throwCall(dvn) == [name |-> "throwFactor", dvn |-> dvn, factor |-> throwFactor(dvn)]

ThrowInit ==
    /\ lastOp = NoOp
    /\ pre = NoOp
    /\ balls = <<>>
    /\ steps = 0
    /\ HostIdle

\* The factor for another closing speed.
ThrowFactor(dvn) ==
    /\ lastOp' = throwCall(dvn)
    /\ pre' = lastOp
    /\ UNCHANGED <<balls, steps>>
    /\ HostUnchanged

ThrowNext == \E dvn \in ClosingSpeeds : ThrowFactor(dvn)

ThrowSpec == ThrowInit /\ [][ThrowNext]_vars

--------------------------------------------------------------------------
(* The host: BilliardGame of main.js, its shot and its substep loop.      *)
(* Three balls on a line near the bottom rail; the cue ball is ball 1.    *)

MaxFrames == 2

HostBalls == 1..3

CUSHION_RAIL_WIDTH == 50000
TABLE_LENGTH   == 3569000 - CUSHION_RAIL_WIDTH * 2
TABLE_WIDTH    == 1778000 - CUSHION_RAIL_WIDTH * 2
TABLE_SURFACE_Y == 860000
TABLE_CENTER_X == 100000
TABLE_CENTER_Z == -1880000
BALL_RADIUS    == PHYSICS_CONFIG.ball.radius
BALL_MASS      == PHYSICS_CONFIG.ball.mass

\* animate(): substeps per frame and the timestep 1/480 of each.
substeps == 8
frictionTimestep == 480

\* this.pockets: four corner pockets and two middle pockets.
pockets ==
    LET halfWidth  == TABLE_WIDTH \div 2
        halfLength == TABLE_LENGTH \div 2
        cornerPocketRadius == 44500
        middlePocketRadius == 52500
        middlePocketOutset == 40000
        cornerPocketOutset == 10000
    IN { [x |-> TABLE_CENTER_X - halfWidth - cornerPocketOutset,
          z |-> TABLE_CENTER_Z - halfLength - cornerPocketOutset,
          radius |-> cornerPocketRadius],
         [x |-> TABLE_CENTER_X - halfWidth - cornerPocketOutset,
          z |-> TABLE_CENTER_Z + halfLength + cornerPocketOutset,
          radius |-> cornerPocketRadius],
         [x |-> TABLE_CENTER_X + halfWidth + cornerPocketOutset,
          z |-> TABLE_CENTER_Z - halfLength - cornerPocketOutset,
          radius |-> cornerPocketRadius],
         [x |-> TABLE_CENTER_X + halfWidth + cornerPocketOutset,
          z |-> TABLE_CENTER_Z + halfLength + cornerPocketOutset,
          radius |-> cornerPocketRadius],
         [x |-> TABLE_CENTER_X - halfWidth - middlePocketOutset,
          z |-> TABLE_CENTER_Z, radius |-> middlePocketRadius],
         [x |-> TABLE_CENTER_X + halfWidth + middlePocketOutset,
          z |-> TABLE_CENTER_Z, radius |-> middlePocketRadius] }

\* Playable rectangle for ball centres (cushionOffset = BALL_RADIUS + 0.002).
cushionOffset == BALL_RADIUS + 2000
minX == TABLE_CENTER_X - TABLE_WIDTH \div 2 + cushionOffset
maxX == TABLE_CENTER_X + TABLE_WIDTH \div 2 - cushionOffset
minZ == TABLE_CENTER_Z - TABLE_LENGTH \div 2 + cushionOffset
maxZ == TABLE_CENTER_Z + TABLE_LENGTH \div 2 - cushionOffset
minNormalVelocity == 50000

\* A rigid body of the external engine.
Body(pos) == [position |-> pos, linvel |-> Zero3, angvel |-> Zero3]

\* Where the three balls lie: on the table's long axis, the cue ball 20 mm
\* from the bottom rail's contact line, ball 2 70 mm and ball 3 130 mm behind it.
HostSpot(i) ==
    [x |-> TABLE_CENTER_X,
     y |-> TABLE_SURFACE_Y + BALL_RADIUS,
     z |-> maxZ - 20000 - (IF i = 1 THEN 0 ELSE IF i = 2 THEN 70000 ELSE 130000)]

\* Shots of the host: normalizedPower, aimAngle (degrees), spinX, spinY.
HostShots ==
    { [power |-> S,      angle |-> 0,   spinX |-> 0,      spinY |-> 0],
      [power |-> S,      angle |-> 180, spinX |-> 0,      spinY |-> 0],
      [power |-> 500000, angle |-> 0,   spinX |-> 500000, spinY |-> 0],
      [power |-> 500000, angle |-> 180, spinX |-> 0,      spinY |-> -300000],
      [power |-> S,      angle |-> 90,  spinX |-> 0,      spinY |-> 0],
      [power |-> 50000,  angle |-> 180, spinX |-> 0,      spinY |-> 0] }

\* One entry of the call log of a substep.
Call(name, a, b) == [name |-> name, a |-> a, b |-> b]

\* Order of the three handlers in the body of the substep loop:
\* world.step(); handleBallCollisions(); applyRollingFriction(dt).
nextHandlerMutant(pc) ==
    CASE pc = "step"     -> "friction"
      [] pc = "friction" -> "collide"
      [] pc = "collide"  -> "step"

nextHandler(pc) ==
    CASE pc = "step"     -> "collide"
      [] pc = "collide"  -> "friction"
      [] pc = "friction" -> "step"

\* shoot(): the cue ball's body and BallState after the strike.
shoot(pos, shot) ==
    LET normalizedPower == shot.power
        maxImpulse   == 350000
        power        == Mul(Mul(normalizedPower, normalizedPower), maxImpulse)
        shotDirX     == sin(shot.angle)
        shotDirZ     == cos(shot.angle)
        strike(initialVel, cueBallState) ==
            [state |-> [cueBallState EXCEPT !.velocity = initialVel],
             body  |-> [position |-> pos, linvel |-> initialVel,
                        angvel |-> cueBallState.angularVelocity]]
        launch(initialSpeed) ==
            strike([x |-> Mul(shotDirX, initialSpeed), y |-> 0,
                    z |-> Mul(shotDirZ, initialSpeed)],
                   applyShot([BallState EXCEPT !.position = pos],
                             normalizedPower, shot.angle,
                             shot.spinX, shot.spinY, 8 * S))
    IN launch(Div(power, BALL_MASS))

\* world.step() of the external engine with dt = 1/480, no damping: every
\* body advances by its linear velocity (its contact solver is not part of
\* the repository; restitution of balls and rails is set to 0 there).
worldStep(bs) ==
    [i \in DOMAIN bs |->
       [bs[i] EXCEPT
          !.position.x = @ + OverN(bs[i].linvel.x, frictionTimestep),
          !.position.z = @ + OverN(bs[i].linvel.z, frictionTimestep)]]

\* handleBallCollisions(), one pair (i, j) of the double loop.
\* hs is the host's data: [balls, bodies, log].
handlePair(hs, i, j) ==
    LET bodyA == hs.bodies[i]
        bodyB == hs.bodies[j]
        posA  == bodyA.position
        posB  == bodyB.position
        minDist == BALL_RADIUS * 2
        dvx  == bodyA.linvel.x - bodyB.linvel.x
        dvz  == bodyA.linvel.z - bodyB.linvel.z
        stateA == [hs.balls[i] EXCEPT !.position = posA,
                                      !.velocity = bodyA.linvel,
                                      !.angularVelocity = bodyA.angvel]
        stateB == [hs.balls[j] EXCEPT !.position = posB,
                                      !.velocity = bodyB.linvel,
                                      !.angularVelocity = bodyB.angvel]
        sync(result) ==
            [balls  |-> [hs.balls EXCEPT ![i] = result.ballA,
                                         ![j] = result.ballB],
             bodies |-> [hs.bodies EXCEPT
                           ![i].linvel = [result.ballA.velocity EXCEPT !.y = 0],
                           ![i].angvel = result.ballA.angularVelocity,
                           ![j].linvel = [result.ballB.velocity EXCEPT !.y = 0],
                           ![j].angvel = result.ballB.angularVelocity],
             log    |-> Append(hs.log, Call("collision", i, j))]
        separate(h1, nx, nz, overlap) ==
            [h1 EXCEPT
               !.bodies[i].position.x = posA.x - Mul(nx, overlap),
               !.bodies[i].position.z = posA.z - Mul(nz, overlap),
               !.bodies[j].position.x = posB.x + Mul(nx, overlap),
               !.bodies[j].position.z = posB.z + Mul(nz, overlap)]
        respond(dist, nx, nz, dvn) ==
            separate(IF dvn > 1000
                     THEN sync(calculateBallCollision(stateA, stateB))
                     ELSE hs,
                     nx, nz, (minDist - dist) \div 2 + 1000)
        touching(dist, nx, nz) ==
            respond(dist, nx, nz, normalVelocity(dvx, dvz, nx, nz))
        pair(dx, dz, dist) ==
            IF dist < minDist /\ dist > 100
            THEN touching(dist, Div(dx, dist), Div(dz, dist))
            ELSE hs
    IN pair(posB.x - posA.x, posB.z - posA.z,
            Hypot2(posB.x - posA.x, posB.z - posA.z))

\* handleBallCollisions(): all pairs i < j, in the order of the double loop.
RECURSIVE collisionLoop(_, _, _)
collisionLoop(hs, i, j) ==
    IF i > Len(hs.bodies) THEN hs
    ELSE IF j > Len(hs.bodies) THEN collisionLoop(hs, i + 1, i + 2)
    ELSE collisionLoop(handlePair(hs, i, j), i, j + 1)

handleBallCollisions(hs) == collisionLoop(hs, 1, 2)

\* applyRollingFriction(): the pocket test of the cushion section.
nearPocket(pos) ==
    \E pocket \in pockets :
        Hypot2(pos.x - pocket.x, pos.z - pocket.z) < OverN(pocket.radius * 5, 2)

\* applyRollingFriction(): ball i is advanced by the integrator and the
\* result is written to its body.
integratorPart(hs, i) ==
    LET apply(state) ==
            [balls  |-> [hs.balls EXCEPT ![i] = state],
             bodies |-> [hs.bodies EXCEPT
                           ![i].linvel = [state.velocity EXCEPT !.y = 0],
                           ![i].angvel = state.angularVelocity],
             log    |-> Append(hs.log, Call("update", i, 0))]
    IN apply(updateBallPhysics(hs.balls[i], frictionTimestep))

\* The four rail tests of the cushion section; c is [state, pos, bounced, log].
railBeyond(rail, pos) ==
    CASE rail = "left"   -> pos.x < minX
      [] rail = "right"  -> pos.x > maxX
      [] rail = "top"    -> pos.z < minZ
      [] rail = "bottom" -> pos.z > maxZ

railInto(rail, velocity) ==
    CASE rail = "left"   -> velocity.x < -minNormalVelocity
      [] rail = "right"  -> velocity.x > minNormalVelocity
      [] rail = "top"    -> velocity.z < -minNormalVelocity
      [] rail = "bottom" -> velocity.z > minNormalVelocity

railInsideMutant(rail, pos, d) == pos

railInside(rail, pos, d) ==
    CASE rail = "left"   -> [pos EXCEPT !.x = minX + d]
      [] rail = "right"  -> [pos EXCEPT !.x = maxX - d]
      [] rail = "top"    -> [pos EXCEPT !.z = minZ + d]
      [] rail = "bottom" -> [pos EXCEPT !.z = maxZ - d]

railCheck(c, rail, i, impactSpeed) ==
    IF railBeyond(rail, c.pos) /\ railInto(rail, c.state.velocity)
    THEN [state   |-> calculateCushionRebound(c.state, rail, impactSpeed),
          pos     |-> railInside(rail, c.pos, 5000),
          bounced |-> TRUE,
          log     |-> Append(c.log, Call("rebound", i, rail))]
    ELSE IF railBeyond(rail, c.pos)
    THEN [c EXCEPT !.pos = railInside(rail, c.pos, 2000)]
    ELSE c

\* applyRollingFriction(): the cushion section for ball i; pos is the body's
\* translation read at the top of the loop iteration.
cushionPart(hs, i) ==
    LET state == hs.balls[i]
        pos   == hs.bodies[i].position
        currentY == Max(TABLE_SURFACE_Y + BALL_RADIUS, pos.y)
        c0 == [state |-> state, pos |-> pos, bounced |-> FALSE, log |-> hs.log]
        apply(c) ==
            IF c.bounced
            THEN [balls  |-> [hs.balls EXCEPT
                                ![i] = [c.state EXCEPT !.position.x = c.pos.x,
                                                       !.position.z = c.pos.z]],
                  bodies |-> [hs.bodies EXCEPT
                                ![i].position = [x |-> c.pos.x, y |-> currentY,
                                                 z |-> c.pos.z],
                                ![i].linvel = [c.state.velocity EXCEPT !.y = 0],
                                ![i].angvel = c.state.angularVelocity],
                  log    |-> c.log]
            ELSE hs
        rails(impactSpeed) ==
            apply(railCheck(railCheck(railCheck(railCheck(c0,
                      "left", i, impactSpeed),
                      "right", i, impactSpeed),
                      "top", i, impactSpeed),
                      "bottom", i, impactSpeed))
        cushions(spd) ==
            IF ~nearPocket(pos) /\ spd > 10000 THEN rails(spd) ELSE hs
    IN cushions(speed(state))

\* applyRollingFriction(): the integrator call comes first, the cushion
\* section after it.
frictionOrderMutant(hs, i) == integratorPart(cushionPart(hs, i), i)

frictionOrder(hs, i) == cushionPart(integratorPart(hs, i), i)

\* applyRollingFriction(): keep the ball at the height of the cloth.
heightCorrection(hs, i) ==
    LET pos      == hs.bodies[i].position
        state    == hs.balls[i]
        correctY == TABLE_SURFACE_Y + BALL_RADIUS
    IN IF pos.y < correctY - 1000
       THEN [hs EXCEPT !.bodies[i].position.y = correctY,
                       !.bodies[i].linvel = [state.velocity EXCEPT !.y = 0]]
       ELSE IF pos.y > correctY + 20000
       THEN [hs EXCEPT !.bodies[i].position.y = Max(correctY, pos.y - 5000)]
       ELSE hs

\* applyRollingFriction(): one iteration of the loop over the balls.
frictionBall(hs, i) ==
    LET pos   == hs.bodies[i].position
        state == [hs.balls[i] EXCEPT !.position = pos]
        h0    == [hs EXCEPT !.balls[i] = state]
        thresholds == PHYSICS_CONFIG.thresholds
        boundsMargin == 600000
        halfWidth  == TABLE_WIDTH \div 2 + boundsMargin
        halfLength == TABLE_LENGTH \div 2 + boundsMargin
        inBounds == /\ Abs(pos.x - TABLE_CENTER_X) < halfWidth
                    /\ Abs(pos.z - TABLE_CENTER_Z) < halfLength
    IN IF speed(state) < thresholds.velocity_stop
          /\ angularSpeed(state) < thresholds.angular_stop
       THEN [h0 EXCEPT !.balls[i].velocity = Zero3,
                       !.balls[i].angularVelocity = Zero3,
                       !.balls[i].phase = "stationary",
                       !.bodies[i].linvel = Zero3,
                       !.bodies[i].angvel = Zero3]
       ELSE IF ~inBounds THEN h0
       ELSE frictionOrder(heightCorrection(h0, i), i)

RECURSIVE frictionLoop(_, _)
frictionLoop(hs, i) ==
    IF i > Len(hs.bodies) THEN hs
    ELSE frictionLoop(frictionBall(hs, i), i + 1)

applyRollingFriction(hs) == frictionLoop(hs, 1)

HostData == [balls |-> balls, bodies |-> bodies, log |-> hlog]

\* The host's data after a handler has run.
HostReturns(r) ==
    /\ balls' = r.balls
    /\ bodies' = r.bodies
    /\ hlog' = r.log

HostInit ==
    /\ balls = [i \in HostBalls |-> BallState]
    /\ bodies = [i \in HostBalls |-> Body(HostSpot(i))]
    /\ hpc = "step"
    /\ substep = 0
    /\ frame = 0
    /\ hlog = <<>>
    /\ pre = balls
    /\ lastOp = NoOp
    /\ steps = 0

\* A handler of the loop body returns: the next handler runs, and after the
\* last one the substep (and after 8 substeps the frame) is over.
HandlerReturns ==
    /\ hpc' = nextHandler(hpc)
    /\ IF nextHandler(hpc) = "step"
       THEN /\ substep' = (substep + 1) % substeps
            /\ frame' = IF substep + 1 = substeps THEN frame + 1 ELSE frame
       ELSE UNCHANGED <<substep, frame>>

\* shoot(), between two frames while every ball lies still.
Shoot(shot) ==
    /\ hpc = "step"
    /\ substep = 0
    /\ frame < MaxFrames
    /\ \A i \in HostBalls : bodies[i].linvel = Zero3 /\ bodies[i].angvel = Zero3
    /\ LET struck(r) ==
               /\ balls' = [balls EXCEPT ![1] = r.state]
               /\ bodies' = [bodies EXCEPT ![1] = r.body]
       IN struck(shoot(bodies[1].position, shot))
    /\ UNCHANGED <<hpc, substep, frame, hlog, pre, lastOp, steps>>

\* this.world.step(), the first statement of a substep.  lastOp keeps the
\* calls of the substep that has just ended.
WorldStep ==
    /\ hpc = "step"
    /\ frame < MaxFrames
    /\ bodies' = worldStep(bodies)
    /\ hlog' = <<>>
    /\ lastOp' = [name |-> "substep", log |-> hlog]
    /\ HandlerReturns
    /\ UNCHANGED <<balls, pre, steps>>

\* this.handleBallCollisions().
HandleBallCollisions ==
    /\ hpc = "collide"
    /\ HostReturns(handleBallCollisions(HostData))
    /\ HandlerReturns
    /\ UNCHANGED <<pre, lastOp, steps>>

\* this.applyRollingFriction(frictionTimestep).  pre keeps the host's data
\* the handler found.
ApplyRollingFriction ==
    /\ hpc = "friction"
    /\ HostReturns(applyRollingFriction(HostData))
    /\ pre' = HostData
    /\ HandlerReturns
    /\ UNCHANGED <<lastOp, steps>>

HostNext ==
    \/ \E shot \in HostShots : Shoot(shot)
    \/ WorldStep
    \/ HandleBallCollisions
    \/ ApplyRollingFriction

HostSpec == HostInit /\ [][HostNext]_vars

--------------------------------------------------------------------------
(* A ball left to itself: after a shot, a collision or a rebound, ball 1   *)
(* is stepped by updateBallPhysics with one fixed timestep for ever, with  *)
(* no contact.  updateBallPhysics only adds to state.position and          *)
(* state.phaseTime and reads neither, so the velocity, spin and phase of   *)
(* the run do not depend on them; every step is taken from the origin and  *)
(* from phaseTime 0, which leaves in position and phaseTime the            *)
(* displacement and the time of the last step.  The calls are numbered as  *)
(* the host numbers its substeps, 0 to 7 and round again.                  *)

\* 1/480 (host substep), 1/120, and 0.01 (the default dt of predictTrajectory).
RunTimesteps == {480, 120, 100}

\* Shots of 0.0008, 0.004 and 0.016 m/s on a resting ball.
SlowShots ==
    { [power |-> 100,  spinY |-> 0],
      [power |-> 100,  spinY |-> S],
      [power |-> 500,  spinY |-> 0],
      [power |-> 2000, spinY |-> 0],
      [power |-> 2000, spinY |-> 400000] }

\* The states a run starts from: after applyShot, after a rebound of a shot
\* ball from the bottom rail, and the ball struck by a shot ball that touched it.
RunStarts ==
    LET struck(spd)  == applyShot(BallState, spd, 0, 0, 0, 8 * S)
        object       == [BallState EXCEPT !.position.z = 2 * PHYSICS_CONFIG.ball.radius]
        bounced(cue) == calculateCushionRebound(cue, "bottom", speed(cue))
    IN {applyShot(BallState, shot.power, 0, 0, shot.spinY, 8 * S) : shot \in SlowShots}
          \cup {bounced(struck(2000))}
          \cup {calculateBallCollision(struck(2000), object).ballB}

RunInit ==
    /\ \E start \in RunStarts, n \in RunTimesteps :
          /\ balls = [i \in Balls |-> IF i = 1 THEN start ELSE BallState]
          /\ lastOp = [name |-> "start", ball |-> 1, n |-> n]
    /\ pre = balls
    /\ steps = 0
    /\ HostIdle

\* The next updateBallPhysics(state, 1/n) of the run.
RunStep ==
    /\ balls' = [balls EXCEPT ![1] =
                    updateBallPhysics([balls[1] EXCEPT !.position.x = 0,
                                                       !.position.z = 0,
                                                       !.phaseTime = 0],
                                      lastOp.n)]
    /\ pre' = balls
    /\ lastOp' = [name |-> "updateBallPhysics", ball |-> 1, n |-> lastOp.n]
    /\ substep' = (substep + 1) % substeps
    /\ UNCHANGED <<steps, hpc, frame, bodies, hlog>>

RunNext == RunStep

\* A step that makes the next call of the run, told by the number of the call.
NextCall == substep' = (substep + 1) % substeps

\* The caller keeps calling: the next call is always made.
RunSpec == RunInit /\ [][RunNext]_vars /\ WF_substep(NextCall)

--------------------------------------------------------------------------
(* Properties of the engine's entry points (specification Spec) *)

IsUpdate    == lastOp.name = "updateBallPhysics"

IsCollision == lastOp.name = "calculateBallCollision"

IsRebound   == lastOp.name = "calculateCushionRebound"

AtRest(state) ==
    /\ state.velocity = Zero3
    /\ state.angularVelocity = Zero3

\* C1 - Stop determinism: an updateBallPhysics call on a state below both
\* stop thresholds leaves velocity and angular velocity exactly zero and the
\* phase 'stationary'; a call on a state so stopped changes nothing at all.
C1_StopDeterminism ==
    IsUpdate =>
        LET before == pre[lastOp.ball]
            after  == balls[lastOp.ball]
        IN /\ stopCondition(before) =>
                 AtRest(after) /\ after.phase = "stationary"
           /\ (AtRest(before) /\ before.phase = "stationary") => after = before

\* A ball that was moving below the thresholds has just been stopped.
C1_Witness ==
    /\ IsUpdate
    /\ stopCondition(pre[lastOp.ball])
    /\ ~AtRest(pre[lastOp.ball])
    /\ pre[lastOp.ball].phase = "sliding"
    /\ AtRest(balls[lastOp.ball])

\* C2 - Momentum conservation: across every calculateBallCollision call the
\* sums of the two balls' x and z velocities are unchanged.
C2_MomentumConserved ==
    IsCollision =>
        /\ balls[1].velocity.x + balls[2].velocity.x
             = pre[1].velocity.x + pre[2].velocity.x
        /\ balls[1].velocity.z + balls[2].velocity.z
             = pre[1].velocity.z + pre[2].velocity.z

\* An oblique contact was resolved with a non-zero throw (friction) impulse.
C2_Witness ==
    /\ IsCollision
    /\ lastOp.resolved
    /\ lastOp.throwAngle > 0
    /\ balls[lastOp.ballB].velocity.x # pre[lastOp.ballB].velocity.x
    /\ balls[lastOp.ballB].velocity.z # pre[lastOp.ballB].velocity.z

\* C3 - Energy non-increase at ball-ball contact: kinetic plus rotational
\* energy of the two balls after calculateBallCollision is at most the energy
\* before (beyond one micro-joule of rounding).
C3_EnergyNonIncreaseBallBall ==
    IsCollision =>
        totalEnergy(balls[1]) + totalEnergy(balls[2])
            <= totalEnergy(pre[1]) + totalEnergy(pre[2]) + 1

\* C4 - Energy non-increase at cushion contact: kinetic plus rotational
\* energy of the ball after calculateCushionRebound is at most the energy
\* before (beyond one micro-joule of rounding).
C4_EnergyNonIncreaseCushion ==
    IsRebound =>
        totalEnergy(balls[lastOp.ball]) <= totalEnergy(pre[lastOp.ball]) + 1

Unchanged(i, fields) == \A f \in fields : balls[i][f] = pre[i][f]

C8_ReboundNoOp ==
    LET i == lastOp.ball
        n == cushionNormal(lastOp.cushion)
    IN ( /\ IsRebound
         /\ \/ lastOp.cushion \notin {"left", "right", "top", "bottom"}
            \/ pre[i].velocity.x * n.x + pre[i].velocity.z * n.z >= 0 )
       => Unchanged(i, {"velocity", "angularVelocity", "phase", "phaseTime"})

\* C9 - In every reachable state a ball whose phase is 'stationary' has
\* velocity and angular velocity exactly zero.
C9_StationaryAtRest ==
    \A i \in Balls : balls[i].phase = "stationary" => AtRest(balls[i])

\* C10 - After every calculateBallCollision call that resolves a contact both
\* balls have phase 'sliding' and phaseTime = 0.
C10_ResolvedSetsSliding ==
    (IsCollision /\ lastOp.resolved) =>
        \A i \in Balls : balls[i].phase = "sliding" /\ balls[i].phaseTime = 0

\* How far ball i was moved by the last operation.
displacement(i) ==
    Hypot2(balls[i].position.x - pre[i].position.x,
           balls[i].position.z - pre[i].position.z)

\* C11 - Penetration correction: after every calculateBallCollision call on
\* a pair whose centre distance d satisfies 0.0001 <= d < 2R the centres are
\* at least 2R apart, whatever the speeds of the two balls (both at rest
\* included), and the faster ball has been displaced no more than the slower.
C11_PenetrationCorrected ==
    ( /\ IsCollision
      /\ centreDistance(pre[1], pre[2]) >= 100
      /\ centreDistance(pre[1], pre[2]) < 2 * PHYSICS_CONFIG.ball.radius )
    => /\ centreDistance(balls[1], balls[2]) >= 2 * PHYSICS_CONFIG.ball.radius
       /\ \A i \in Balls, j \in Balls :
              speed(pre[i]) > speed(pre[j]) => displacement(i) <= displacement(j)

\* Equal within the rounding of the fixed-point velocities, 10^-5 m/s.
Near(a, b) == Abs(a - b) <= 10

\* The last call was a resolved collision exactly along the line of centres:
\* the struck ball at rest, the striker without side-spin and without
\* velocity across the line of centres.
HeadOn ==
    /\ IsCollision
    /\ lastOp.resolved
    /\ pre[lastOp.ballB].velocity = Zero3
    /\ pre[lastOp.ballA].angularVelocity.y = 0
    /\ tangentialVelocity(pre[lastOp.ballA], pre[lastOp.ballB]) = 0

\* C12 - Head-on elastic case: a head-on collision with closing speed v0
\* applies no tangential impulse (throwAngle 0), leaves the striker with
\* ((1 - e) / 2) * v0 and the struck ball with ((1 + e) / 2) * v0 along the
\* line of centres; for v0 = 2.0 m/s along z and e = 0.98 the velocities are
\* (0, 0.02) and (0, 1.98).
C12_HeadOnElastic ==
    HeadOn =>
        LET A  == lastOp.ballA
            B  == lastOp.ballB
            e  == PHYSICS_CONFIG.ball.restitution_ball_ball
            d  == centreDistance(pre[A], pre[B])
            nx == Div(pre[B].position.x - pre[A].position.x, d)
            nz == Div(pre[B].position.z - pre[A].position.z, d)
            v0 == closingVelocity(pre[A], pre[B])
        IN /\ lastOp.throwAngle = 0
           /\ Near(balls[A].velocity.x, Mul(Mul((S - e) \div 2, v0), nx))
           /\ Near(balls[A].velocity.z, Mul(Mul((S - e) \div 2, v0), nz))
           /\ Near(balls[B].velocity.x, Mul(Mul((S + e) \div 2, v0), nx))
           /\ Near(balls[B].velocity.z, Mul(Mul((S + e) \div 2, v0), nz))
           /\ (pre[A].velocity.x = 0 /\ pre[A].velocity.z = 2 * S /\ nz = S)
                 => /\ balls[A].velocity = [x |-> 0, y |-> 0, z |-> 20000]
                    /\ balls[B].velocity = [x |-> 0, y |-> 0, z |-> 1980000]

\* The spec's example: A at 2.0 m/s along z has just struck B at rest,
\* exactly touching at (0, 2R).
C12_Witness ==
    /\ HeadOn
    /\ pre[lastOp.ballA].velocity = [x |-> 0, y |-> 0, z |-> 2 * S]
    /\ pre[lastOp.ballB].position.z - pre[lastOp.ballA].position.z
          = 2 * PHYSICS_CONFIG.ball.radius
    /\ balls[lastOp.ballA].velocity.z = 20000
    /\ balls[lastOp.ballB].velocity.z = 1980000

\* Equal within the rounding of a speed computed from rounded components.
WithinRounding(a, b) == Abs(a - b) <= 2

\* mu_roll * g * dt for dt = 1/n
rollingLoss(n) ==
    OverN(Mul(PHYSICS_CONFIG.world.table_friction_roll, PHYSICS_CONFIG.world.gravity), n)

\* omega_x = -vz / R and omega_z = vx / R
NaturalRoll(state) ==
    /\ state.angularVelocity.x = Div(-state.velocity.z, PHYSICS_CONFIG.ball.radius)
    /\ state.angularVelocity.z = Div(state.velocity.x, PHYSICS_CONFIG.ball.radius)

\* The last call was updateBallPhysics(state, 1/120) on a ball in pure
\* rolling (slip zero up to rounding), without side-spin, not slower than
\* velocity_stop.
PureRollingStep ==
    /\ IsUpdate
    /\ lastOp.n = 120
    /\ WithinRounding(slipSpeed(pre[lastOp.ball]), 0)
    /\ pre[lastOp.ball].angularVelocity.y = 0
    /\ speed(pre[lastOp.ball]) >= PHYSICS_CONFIG.thresholds.velocity_stop

\* The nap drag acts on a ball that moves with velocity v after it has been
\* slowed to speed spd: 0.05 <= spd <= 0.5 and the direction of v opposes
\* the nap direction by more than 0.3.
NapDragActs(v, spd) ==
    /\ spd >= 50000
    /\ spd <= 500000
    /\ Mul(Div(v.x, Length2(v)), PHYSICS_CONFIG.world.nap_direction.x)
         + Mul(Div(v.z, Length2(v)), PHYSICS_CONFIG.world.nap_direction.z) < -300000

IsPrediction == lastOp.name = "predictTrajectory"

\* C14 - Trajectory termination: predictTrajectory on a ball whose speed is
\* already below velocity_stop returns at most one sample.
C14_TrajectoryTermination ==
    ( /\ IsPrediction
      /\ speed(balls[lastOp.ball]) < PHYSICS_CONFIG.thresholds.velocity_stop )
    => Len(lastOp.trajectory) <= 1

\* C15 - Cushion CoR monotonicity: of two evaluations of the effective
\* coefficient of restitution at the same impact speed with incidence angles
\* 8 <= a1 <= a2 < 90 degrees, the one at a2 is not smaller, also when a1 and
\* a2 lie in different segments (boundaries at 30 and 60 degrees).
C15_CorMonotone ==
    ( /\ lastOp.name = "effectiveCor"
      /\ pre.impactSpeed = lastOp.impactSpeed
      /\ 8 * S <= pre.angleDeg
      /\ pre.angleDeg <= lastOp.angleDeg
      /\ lastOp.angleDeg < 90 * S )
    => pre.effectiveCor <= lastOp.effectiveCor

\* Two evaluations on either side of both segment boundaries.
C15_Witness ==
    /\ lastOp.name = "effectiveCor"
    /\ pre.angleDeg = 30 * S - 1
    /\ lastOp.angleDeg = 60 * S
    /\ pre.effectiveCor < lastOp.effectiveCor

\* A finite number: an integer within the range of the fixed-point values.
Finite(x) == x \in Int /\ -MaxInt <= x /\ x <= MaxInt

FiniteState(state) ==
    /\ \A f \in {"position", "velocity", "angularVelocity"} :
           \A c \in {"x", "y", "z"} : Finite(state[f][c])
    /\ Finite(state.phaseTime)

C17_VerticalVelocityKept ==
    \A i \in Balls : balls[i].velocity.y = pre[i].velocity.y

\* C18 - phaseTime is the time since the last phase transition: it is never
\* negative, it is 0 right after every operation that changed the ball's
\* phase, and an updateBallPhysics step that keeps the phase (and does not
\* stop the ball) adds dt to it.
C18_PhaseTimeSinceTransition ==
    \A i \in Balls :
        /\ balls[i].phaseTime >= 0
        /\ balls[i].phase # pre[i].phase => balls[i].phaseTime = 0
        /\ ( /\ IsUpdate
              /\ lastOp.ball = i
              /\ balls[i].phase = pre[i].phase
              /\ ~stopCondition(pre[i]) )
           => balls[i].phaseTime = pre[i].phaseTime + Ticks \div lastOp.n

\* The last call was an updateBallPhysics call that took the rolling branch.
RollingBranch ==
    /\ IsUpdate
    /\ ~stopCondition(pre[lastOp.ball])
    /\ slipSpeed(pre[lastOp.ball]) <= PHYSICS_CONFIG.thresholds.slip_threshold

\* C19 - Rolling has zero slip by construction: the state returned by every
\* updateBallPhysics call that took the rolling branch has omega_x = -vz / R
\* and omega_z = vx / R, at every speed and also when swerve or nap drag
\* acted in the call.
C19_RollingZeroSlip ==
    RollingBranch => NaturalRoll(balls[lastOp.ball])

\* C20 - Regime choice without hysteresis: after every updateBallPhysics
\* call that does not meet the stop condition the phase is 'sliding' if the
\* slipSpeed of the input state is above slip_threshold and 'rolling' if it
\* is not, whatever the phase of the input state.
C20_RegimeBySlipOnly ==
    (IsUpdate /\ ~stopCondition(pre[lastOp.ball])) =>
        balls[lastOp.ball].phase =
            IF slipSpeed(pre[lastOp.ball]) > PHYSICS_CONFIG.thresholds.slip_threshold
            THEN "sliding" ELSE "rolling"

\* A ball that was 'sliding' with a slip between half the threshold and the
\* threshold has just been put in the rolling regime.
C20_Witness ==
    /\ IsUpdate
    /\ ~stopCondition(pre[lastOp.ball])
    /\ pre[lastOp.ball].phase = "sliding"
    /\ 2 * slipSpeed(pre[lastOp.ball]) > PHYSICS_CONFIG.thresholds.slip_threshold
    /\ slipSpeed(pre[lastOp.ball]) <= PHYSICS_CONFIG.thresholds.slip_threshold
    /\ balls[lastOp.ball].phase = "rolling"


\* The impulse ball B received in the last collision, resolved along the
\* line of centres (normal) and across it (friction): m times its change of
\* velocity along the normal from A to B and along the tangent (-nz, nx).
impulseReceived ==
    LET A  == lastOp.ballA
        B  == lastOp.ballB
        m  == PHYSICS_CONFIG.ball.mass
        d  == centreDistance(pre[A], pre[B])
        nx == Div(pre[B].position.x - pre[A].position.x, d)
        nz == Div(pre[B].position.z - pre[A].position.z, d)
        dx == balls[B].velocity.x - pre[B].velocity.x
        dz == balls[B].velocity.z - pre[B].velocity.z
    IN [ normal   |-> Mul(m, normalVelocity(dx, dz, nx, nz)),
         friction |-> Mul(m, normalVelocity(dx, dz, -nz, nx)) ]

\* friction_ball_ball * J_n * friction_accumulation
coulombLimit(normalImpulse) ==
    Mul(Mul(PHYSICS_CONFIG.ball.friction_ball_ball, normalImpulse),
        PHYSICS_CONFIG.collision.friction_accumulation)

\* C21 - Coulomb limit on throw: for every resolved ball-ball collision the
\* magnitude of the friction impulse applied is at most friction_ball_ball *
\* J_n * friction_accumulation, J_n being the normal impulse of the collision
\* (both impulses as received by the balls, beyond two units of rounding).
C21_CoulombLimit ==
    (IsCollision /\ lastOp.resolved) =>
        Abs(impulseReceived.friction) <= coulombLimit(impulseReceived.normal) + 2

\* An oblique contact in which the limit binds: half the tangential momentum
\* is more than the limit allows, and a friction impulse was applied.
C21_Witness ==
    /\ IsCollision
    /\ lastOp.resolved
    /\ pre[lastOp.ballA].angularVelocity.y = 0
    /\ Abs(Mul(PHYSICS_CONFIG.ball.mass,
               tangentialVelocity(pre[lastOp.ballA], pre[lastOp.ballB])) \div 2)
          > coulombLimit(impulseReceived.normal) + 2
    /\ Abs(impulseReceived.friction) > 0

Rails == {"left", "right", "top", "bottom"}

\* The velocity component of a state along the inward normal of a rail.
alongNormal(state, cushion) ==
    state.velocity.x * cushionNormal(cushion).x
        + state.velocity.z * cushionNormal(cushion).z

\* The velocity component of a state along the rail.
alongRail(state, cushion) ==
    state.velocity.z * cushionNormal(cushion).x
        - state.velocity.x * cushionNormal(cushion).z

IsShot == lastOp.name = "applyShot"

\* C24 - Every shot or cushion contact resets the phase: after applyShot
\* (power 0 included) and after calculateCushionRebound (any rail name, any
\* ball state) the ball has phase 'sliding' and phaseTime = 0; the rebound
\* also multiplies the side-spin by 0.80 and each rolling-plane spin
\* component by 0.95.
C24_PhaseReset ==
    /\ (IsShot \/ IsRebound) =>
           /\ balls[lastOp.ball].phase = "sliding"
           /\ balls[lastOp.ball].phaseTime = 0
    /\ IsRebound =>
           /\ balls[lastOp.ball].angularVelocity.y
                 = Mul(pre[lastOp.ball].angularVelocity.y, 800000)
           /\ balls[lastOp.ball].angularVelocity.x
                 = Mul(pre[lastOp.ball].angularVelocity.x, 950000)
           /\ balls[lastOp.ball].angularVelocity.z
                 = Mul(pre[lastOp.ball].angularVelocity.z, 950000)

\* A shot of power 0 on a ball that was rolling with a phaseTime above 0.
C24_Witness ==
    /\ IsShot
    /\ lastOp.shot.power = 0
    /\ pre[lastOp.ball].phase = "rolling"
    /\ pre[lastOp.ball].phaseTime > 0
    /\ balls[lastOp.ball].phase = "sliding"
    /\ balls[lastOp.ball].phaseTime = 0

\* C25 - Gating and degenerate distance: when the centre distance of the two
\* balls is < 0.0001 or > 2.5R, calculateBallCollision returns both balls
\* with position, velocity, angular velocity, phase and phaseTime unchanged
\* and reports no throwAngle.
C25_GatedUnchanged ==
    ( /\ IsCollision
      /\ \/ centreDistance(pre[1], pre[2]) < 100
         \/ 2 * centreDistance(pre[1], pre[2]) > 5 * PHYSICS_CONFIG.ball.radius )
    => /\ balls = pre
       /\ ~lastOp.resolved

\* A striker at 2 m/s or more closing in on a ball 0.2 m away: returned as is.
C25_Witness ==
    /\ IsCollision
    /\ centreDistance(pre[1], pre[2]) = 200000
    /\ closingVelocity(pre[lastOp.ballA], pre[lastOp.ballB]) >= 2 * S
    /\ balls = pre
    /\ ~lastOp.resolved

NoSideSpin == \A i \in Balls : pre[i].angularVelocity.y = 0

\* The result of the call just made had the two balls been passed in the
\* other order.
otherOrder == calculateBallCollision(pre[lastOp.ballB], pre[lastOp.ballA])

\* C29 - Argument-order independence of the linear outcome: for two balls
\* that both have zero side-spin, the linear velocity and the corrected
\* position of each ball after calculateBallCollision are the same whether
\* the call is made as (A, B) or as (B, A).
C29_ArgumentOrder ==
    (IsCollision /\ NoSideSpin) =>
        /\ balls[lastOp.ballA].velocity = otherOrder.ballB.velocity
        /\ balls[lastOp.ballA].position = otherOrder.ballB.position
        /\ balls[lastOp.ballB].velocity = otherOrder.ballA.velocity
        /\ balls[lastOp.ballB].position = otherOrder.ballA.position

\* An oblique contact of two overlapping balls without side-spin, called
\* in index order of the host with the struck ball first: the struck ball
\* is pushed out of the overlap, the friction impulse is not zero, and both
\* velocities change as they do in the striker-first call.
C29_Witness ==
    /\ IsCollision
    /\ NoSideSpin
    /\ lastOp.resolved
    /\ lastOp.throwAngle > 0
    /\ lastOp.ballA = 2
    /\ centreDistance(pre[1], pre[2]) < 2 * PHYSICS_CONFIG.ball.radius
    /\ balls[2].position # pre[2].position
    /\ balls[2].position = otherOrder.ballB.position
    /\ balls[1].velocity # pre[1].velocity
    /\ balls[1].velocity = otherOrder.ballA.velocity
    /\ balls[2].velocity # pre[2].velocity

--------------------------------------------------------------------------
(* Properties of the throw factor (specification ThrowSpec) *)

IsThrowFactor  == lastOp.name = "throwFactor"

WasThrowFactor == pre.name = "throwFactor"

\* C22 (as claimed) - Slow impacts get more throw: the factor applied to the
\* Coulomb-limited friction impulse is >= 1, and it is strictly larger for a
\* lower closing speed than for a higher one.
C22_SlowImpactsScaledUp ==
    IsThrowFactor =>
        /\ lastOp.factor >= S
        /\ (WasThrowFactor /\ lastOp.dvn < pre.dvn) => lastOp.factor > pre.factor

\* C22 (amended) - The factor never scales the impulse up: it is at most 1
\* and above 0.7, it is exactly 1 for closing speeds up to 1.5 m/s, it is
\* never smaller for a lower closing speed than for a higher one, and from
\* 1.5 m/s upwards it is strictly larger for the lower closing speed.
C22_FastImpactsScaledDown ==
    IsThrowFactor =>
        /\ lastOp.factor <= S
        /\ lastOp.factor > 700000
        /\ lastOp.dvn <= 1500000 => lastOp.factor = S
        /\ (WasThrowFactor /\ lastOp.dvn < pre.dvn) => lastOp.factor >= pre.factor
        /\ (WasThrowFactor /\ 1500000 <= lastOp.dvn /\ lastOp.dvn < pre.dvn)
              => lastOp.factor > pre.factor

\* The factor at 2 m/s evaluated after the factor at 8 m/s: both below 1.
C22_Witness ==
    /\ IsThrowFactor
    /\ WasThrowFactor
    /\ lastOp.dvn = 2 * S
    /\ pre.dvn = 8 * S
    /\ pre.factor < lastOp.factor
    /\ lastOp.factor < S

--------------------------------------------------------------------------
(* Properties of a ball left to itself (specification RunSpec) *)

Stopped == balls[1].phase = "stationary" /\ AtRest(balls[1])

\* C27 - Every ball comes to rest: from any state produced by applyShot,
\* calculateBallCollision or calculateCushionRebound, repeated
\* updateBallPhysics calls with a fixed dt of 1/480 or 1/120 and no contact
\* eventually reach phase 'stationary' with zero velocity and zero angular
\* velocity.
C27_EveryBallComesToRest ==
    lastOp.n \in {480, 120} => <>Stopped

\* C28 - Slide-to-roll convergence: a sliding ball, stepped repeatedly with
\* a fixed timestep of 1/480, 1/120 or 0.01 and no contact, eventually takes
\* the rolling branch or stops.
C28_SlideToRollConverges ==
    (balls[1].phase = "sliding") ~> (balls[1].phase \in {"rolling", "stationary"})

--------------------------------------------------------------------------
(* Properties of the host's substep loop (specification HostSpec) *)

Calls == 1..Len(hlog)

IsCall(k, name) == hlog[k].name = name

\* C5 - Substep ordering, cushion part, as stated: a cushion rebound of a
\* ball in a substep is applied before that ball's updateBallPhysics call of
\* the same substep (no integrator call of the ball precedes its rebound).
C5_ReboundBeforeIntegrator ==
    \A k \in Calls, l \in Calls :
        (IsCall(l, "rebound") /\ IsCall(k, "update") /\ hlog[k].a = hlog[l].a)
            => l < k

\* C5 - Substep ordering, cushion part, as the host does it: a cushion
\* rebound of a ball in a substep is applied after that ball's
\* updateBallPhysics call of the same substep and no integrator call of the
\* ball follows it in that substep, so the rebound velocity is first
\* integrated in the following substep.
C5_ReboundAfterIntegrator ==
    \A l \in Calls :
        IsCall(l, "rebound") =>
            /\ \E k \in 1..(l - 1) : IsCall(k, "update") /\ hlog[k].a = hlog[l].a
            /\ \A k \in (l + 1)..Len(hlog) :
                   ~(IsCall(k, "update") /\ hlog[k].a = hlog[l].a)

C5_Witness ==
    /\ hpc = "step"
    /\ \E l \in Calls : IsCall(l, "rebound") /\ balls[hlog[l].a].phase = "sliding"

\* C6 - Substep ordering, ball-ball part: in each of the 8 substeps of a
\* frame every calculateBallCollision call of handleBallCollisions precedes
\* every updateBallPhysics call, and no ball has been advanced when
\* applyRollingFriction is about to run.
C6_CollisionsBeforeIntegrator ==
    /\ substep \in 0..(substeps - 1)
    /\ \A k \in Calls, l \in Calls :
           (IsCall(k, "collision") /\ IsCall(l, "update")) => k < l
    /\ hpc = "friction" => \A k \in Calls : ~IsCall(k, "update")
    /\ hpc = "collide" => hlog = <<>>

C6_Witness ==
    /\ hpc = "step"
    /\ substep > 0
    /\ \E k \in Calls, l \in Calls : IsCall(k, "collision") /\ IsCall(l, "update")

\* The log of a substep has a calculateCushionRebound call for ball i on rail.
Rebounded(log, i, rail) ==
    \E k \in 1..Len(log) :
        log[k].name = "rebound" /\ log[k].a = i /\ log[k].b = rail

\* The state of ball i that the cushion section of the handler found: the
\* state the integrator returned for the ball at the body's position.
atRailCheck(i) ==
    updateBallPhysics([pre.balls[i] EXCEPT !.position = pre.bodies[i].position],
                      frictionTimestep)

\* C30 - No repeated bounce on one rail: the host calls
\* calculateCushionRebound for a rail only when the ball's body is beyond
\* that rail's boundary and the velocity component into the rail exceeds
\* 0.05 m/s; after the handler the velocity component normal to that rail
\* points into the table, in the ball's state and in its body, the ball is
\* inside the boundary, and the substep before had no rebound of this ball
\* on this rail.
C30_NoRepeatedBounce ==
    \A i \in HostBalls, rail \in Rails :
        Rebounded(hlog, i, rail) =>
            /\ railBeyond(rail, pre.bodies[i].position)
            /\ alongNormal(atRailCheck(i), rail) < -50000
            /\ alongNormal(balls[i], rail) > 0
            /\ alongNormal([velocity |-> bodies[i].linvel], rail) > 0
            /\ ~railBeyond(rail, bodies[i].position)
            /\ ~railBeyond(rail, balls[i].position)
            /\ lastOp.name = "substep" => ~Rebounded(lastOp.log, i, rail)

\* The substep after a rebound of the cue ball from the bottom rail has
\* ended: the ball is inside the boundary and moving away from the rail, and
\* this substep has no rebound.
C30_Witness ==
    /\ hpc = "step"
    /\ lastOp.name = "substep"
    /\ Rebounded(lastOp.log, 1, "bottom")
    /\ hlog # <<>>
    /\ \A rail \in Rails : ~Rebounded(hlog, 1, rail)
    /\ ~railBeyond("bottom", bodies[1].position)
    /\ alongNormal(balls[1], "bottom") > 0

=============================================================================
